---- MODULE Spec2Model ----
(***************************************************************************)
(* A model of the haptic threat-feedback system (lanan3969/MatchAlgorithm): *)
(* the control loop of main.py with the components it drives (UDP ingest,   *)
(* wire decoding, scoring strategy chain, CSV round logger, serial driver). *)
(*                                                                          *)
(* Python values are represented as follows.                                *)
(*   None            the empty sequence <<>>; a present value x is <<x>>    *)
(*   int / str       round ids are [kind, text]: kind is "int" or "str" and *)
(*                   text is what str() of the value gives                  *)
(*   exception       the name of its class, "none" when nothing is raised   *)
(*   serial line     "m,i,k\n" is the record [motor, intensity, mode]       *)
(***************************************************************************)
EXTENDS Integers, Sequences, FiniteSets, TLC

VARIABLES
    pc,         \* position of main(): loop, recv, process, mode, finally_*, done; "api" in the component specifications
    running,    \* main.running, the flag the signal handler clears
    config,     \* the settings of config.py read at import time
    game_data,  \* the tick returned by receive_data, None when absent
    csv,        \* the CSVLogger: present (csv_logger is not None), open (file handle), rows (data rows of the file)
    serial,     \* the SerialHandler: open (serial_connection and is_open)
    wire,       \* history: the command lines written to the serial link by the current tick / driver call
    udp,        \* the UDPServer: socket (self.socket is not None)
    hist,       \* history: of the control loop (computations per round id, exit cause,
                \* releases, branch taken) or of the component under study
    call,       \* the last component operation called: its name, arguments and result
    ticks,      \* number of datagrams drawn so far
    most_threatening    \* main's local most_threatening, None before it is computed

vars == <<pc, running, config, game_data, csv, serial, wire, udp, hist, call, ticks,
          most_threatening>>

(***************************************************************************)
(* Bounds of the model.                                                     *)
(***************************************************************************)
MaxTicks == 2
MaxRows == 3
MaxSector == 40
MantissaBits == 4
AngleBits == 12
GridBits == 8
ExpScale == 30000
MaxDistance == 50

(***************************************************************************)
(* Python values.                                                           *)
(***************************************************************************)
None == <<>>
Some(x) == <<x>>
IsNone(v) == v = <<>>
Val(v) == v[1]

PyInt(t) == [kind |-> "int", text |-> t]
PyStr(t) == [kind |-> "str", text |-> t]

\* a == b for a and b each an int or a str: a str never equals an int
PyEq(a, b) == a.kind = b.kind /\ a.text = b.text

\* The round ids of the model: JSON numbers and JSON strings
RoundIds == {PyInt("1"), PyInt("2"), PyStr("1"), PyStr("1-1")}

(***************************************************************************)
(* csv_logger.py                                                            *)
(***************************************************************************)
\* csv.writer writes str(value) into the cell
CsvWriteCell(v) == v.text
\* csv.DictReader returns every cell as a str
CsvReadCell(t) == PyStr(t)

DecimalText(i) == IF i < 0 THEN "neg"
                  ELSE IF i > 9 THEN "big"
                  ELSE <<"0", "1", "2", "3", "4", "5", "6", "7", "8", "9">>[i + 1]

\* CSVLogger.__init__: directory and file created, header written
NewCSVLogger == [present |-> TRUE, open |-> TRUE, rows |-> <<>>]
\* main.py: csv_logger stays None when the constructor raised
NoCSVLogger == [present |-> FALSE, open |-> FALSE, rows |-> <<>>]

CsvRow(round_number, most_threatening_target) ==
    [round |-> CsvWriteCell(round_number),
     threat_enemy_id |-> IF IsNone(most_threatening_target) THEN "N/A"
                         ELSE DecimalText(Val(most_threatening_target).id)]

\* log_round_data without its writerow
LogRoundDataWritesNothing(c, round_number, most_threatening_target) == c

\* log_round_data: writerow on a closed file raises ValueError, which the
\* method catches: nothing is written and nothing is raised
LogRoundData(c, round_number, most_threatening_target) ==
    IF ~c.open THEN c
    ELSE [c EXCEPT !.rows = Append(@, CsvRow(round_number, most_threatening_target))]

\* check_round_exists: linear scan of the file, row.get('round') == round_number
CheckRoundExists(c, round_number) ==
    \E i \in 1..Len(c.rows) : PyEq(CsvReadCell(c.rows[i].round), round_number)

\* close
CloseCSV(c) == [c EXCEPT !.open = FALSE]

(***************************************************************************)
(* models.py: Position, Target, GameData and GameData.from_dict             *)
(*                                                                          *)
(* A JSON object is a record with the set of its keys ("keys") and a value  *)
(* for every key it may hold; the value of an absent key is never read.     *)
(***************************************************************************)
PositionKeys == {"x", "y", "z"}
TargetRequiredKeys == {"id", "angle", "distance", "type", "position"}
TopRequiredKeys == {"round", "playerPosition", "targets"}

JsonPosition(ks, x, y, z) == [keys |-> ks, x |-> x, y |-> y, z |-> z]

\* Position(**d): a TypeError unless d has exactly the keywords x, y, z
PositionFromDict(d) ==
    IF d.keys = PositionKeys
    THEN [exc |-> "none", value |-> [x |-> d.x, y |-> d.y, z |-> d.z]]
    ELSE [exc |-> "TypeError", value |-> None]

\* bool(v) for the value of a "velocity" key: null and the empty object are false
Truthy(v) == ~IsNone(v) /\ Val(v).keys # {}

\* A variant of the loop body in which a target without "type" is a "Soldier"
TargetFromDictDefaultType(t) ==
    IF "position" \notin t.keys THEN [exc |-> "KeyError", value |-> None]
    ELSE IF t.position.keys # PositionKeys THEN [exc |-> "TypeError", value |-> None]
    ELSE IF {"id", "angle", "distance"} \ t.keys # {}
         THEN [exc |-> "KeyError", value |-> None]
    ELSE [exc |-> "none",
          value |-> [id |-> t.id, angle |-> t.angle, distance |-> t.distance,
                     type |-> IF "type" \in t.keys THEN t.type ELSE "Soldier",
                     position |-> [x |-> t.position.x, y |-> t.position.y,
                                   z |-> t.position.z],
                     speed |-> IF "speed" \in t.keys THEN t.speed ELSE 0,
                     direction |-> IF "direction" \in t.keys THEN t.direction ELSE 0,
                     velocity |-> None]]

\* The body of the loop over data['targets'] for one target_data
TargetFromDict(t) ==
    IF "position" \notin t.keys THEN [exc |-> "KeyError", value |-> None]
    ELSE LET target_pos == PositionFromDict(t.position)
             has_velocity == "velocity" \in t.keys /\ Truthy(t.velocity)
             velocity == IF has_velocity THEN PositionFromDict(Val(t.velocity))
                         ELSE [exc |-> "none", value |-> None]
         IN  IF target_pos.exc # "none" THEN [exc |-> target_pos.exc, value |-> None]
             ELSE IF velocity.exc # "none" THEN [exc |-> velocity.exc, value |-> None]
             ELSE IF {"id", "angle", "distance", "type"} \ t.keys # {}
                  THEN [exc |-> "KeyError", value |-> None]
             ELSE [exc |-> "none",
                   value |-> [id |-> t.id, angle |-> t.angle, distance |-> t.distance,
                              type |-> t.type, position |-> target_pos.value,
                              speed |-> IF "speed" \in t.keys THEN t.speed ELSE 0,
                              direction |-> IF "direction" \in t.keys THEN t.direction ELSE 0,
                              velocity |-> IF has_velocity THEN Some(velocity.value) ELSE None]]

RECURSIVE TargetsFromDict(_)
TargetsFromDict(ts) ==
    IF ts = <<>> THEN [exc |-> "none", value |-> <<>>]
    ELSE LET head == TargetFromDict(Head(ts))
         IN  IF head.exc # "none" THEN [exc |-> head.exc, value |-> <<>>]
             ELSE LET rest == TargetsFromDict(Tail(ts))
                  IN  IF rest.exc # "none" THEN rest
                      ELSE [exc |-> "none", value |-> <<head.value>> \o rest.value]

\* A variant of from_dict that also stores situationAwareness (False when absent)
FromDictWithSituationAwareness(data) ==
    IF data.json # "object" THEN [exc |-> "TypeError", value |-> None]
    ELSE IF "playerPosition" \notin data.keys THEN [exc |-> "KeyError", value |-> None]
    ELSE LET player_pos == PositionFromDict(data.playerPosition)
         IN  IF player_pos.exc # "none" THEN [exc |-> player_pos.exc, value |-> None]
             ELSE IF "targets" \notin data.keys THEN [exc |-> "KeyError", value |-> None]
             ELSE LET targets == TargetsFromDict(data.targets)
                  IN  IF targets.exc # "none" THEN [exc |-> targets.exc, value |-> None]
                      ELSE IF "round" \notin data.keys THEN [exc |-> "KeyError", value |-> None]
                      ELSE [exc |-> "none",
                            value |-> Some([round |-> data.round,
                                            playerPosition |-> player_pos.value,
                                            targets |-> targets.value,
                                            situationAwareness |->
                                                IF "situationAwareness" \in data.keys
                                                THEN data.situationAwareness ELSE FALSE])]

\* GameData.from_dict: the record it builds has the fields round,
\* playerPosition and targets, and no other
FromDict(data) ==
    IF data.json # "object" THEN [exc |-> "TypeError", value |-> None]
    ELSE IF "playerPosition" \notin data.keys THEN [exc |-> "KeyError", value |-> None]
    ELSE LET player_pos == PositionFromDict(data.playerPosition)
         IN  IF player_pos.exc # "none" THEN [exc |-> player_pos.exc, value |-> None]
             ELSE IF "targets" \notin data.keys THEN [exc |-> "KeyError", value |-> None]
             ELSE LET targets == TargetsFromDict(data.targets)
                  IN  IF targets.exc # "none" THEN [exc |-> targets.exc, value |-> None]
                      ELSE IF "round" \notin data.keys THEN [exc |-> "KeyError", value |-> None]
                      ELSE [exc |-> "none",
                            value |-> Some([round |-> data.round,
                                            playerPosition |-> player_pos.value,
                                            targets |-> targets.value])]

\* getattr: reading an attribute the object does not have raises AttributeError
HasAttr(obj, name) == name \in DOMAIN obj

(***************************************************************************)
(* The datagrams of the model.                                              *)
(***************************************************************************)
PlayerOrigin == JsonPosition(PositionKeys, 0, 0, 0)

JsonTarget(ks, id, angle, distance, type, position, velocity) ==
    [keys |-> ks, id |-> id, angle |-> angle, distance |-> distance, type |-> type,
     position |-> position, speed |-> 3, direction |-> 180, velocity |-> velocity]

\* older senders: required keys only
TSoldier == JsonTarget(TargetRequiredKeys, 1, 0, 5, "Soldier",
                       JsonPosition(PositionKeys, 0, 0, 5), None)
TTank == JsonTarget(TargetRequiredKeys \cup {"speed", "direction"}, 2, 30, 20, "Tank",
                    JsonPosition(PositionKeys, 20, 0, 0), None)
TDrone == JsonTarget(TargetRequiredKeys \cup {"speed", "direction"}, 3, -45, 40, "Drone",
                     JsonPosition(PositionKeys, -40, 0, 0), None)
\* a velocity vector, as models.py types it
TVelocity == JsonTarget(TargetRequiredKeys \cup {"speed", "direction", "velocity"}, 4, 0, 8,
                        "Soldier", JsonPosition(PositionKeys, 0, 0, -8),
                        Some(JsonPosition(PositionKeys, 1, 0, 0)))
\* "velocity": null
TNullVelocity == JsonTarget(TargetRequiredKeys \cup {"velocity"}, 5, 10, 12, "Tank",
                            JsonPosition(PositionKeys, 12, 0, 12), None)
\* "velocity": {}
TEmptyVelocity == JsonTarget(TargetRequiredKeys \cup {"velocity"}, 8, 10, 12, "Soldier",
                             JsonPosition(PositionKeys, 12, 0, 12),
                             Some(JsonPosition({}, 0, 0, 0)))
\* distances the sender precomputes are not range-checked by the decoder
TNegative == JsonTarget(TargetRequiredKeys, 6, 0, -2, "Soldier",
                        JsonPosition(PositionKeys, 0, 0, 2), None)
TMinusOne == JsonTarget(TargetRequiredKeys, 7, 0, -1, "Soldier",
                        JsonPosition(PositionKeys, 0, 0, 1), None)

JsonObject(ks, round, playerPosition, targets, situationAwareness) ==
    [json |-> "object", keys |-> ks,
     round |-> IF "round" \in ks THEN round ELSE PyStr(""),
     playerPosition |-> IF "playerPosition" \in ks THEN playerPosition ELSE PlayerOrigin,
     targets |-> IF "targets" \in ks THEN targets ELSE <<>>,
     situationAwareness |-> IF "situationAwareness" \in ks THEN situationAwareness ELSE FALSE]

Timeout == [kind |-> "timeout"]
RecvError == [kind |-> "oserror"]
BadUtf8 == [kind |-> "data", body |-> "bad_utf8"]
BadJson == [kind |-> "data", body |-> "bad_json"]
JsonDatagram(v) == [kind |-> "data", body |-> "json", value |-> v]

\* The ticks the control loop is fed
LoopTargetLists ==
    {<<>>, <<TSoldier>>, <<TSoldier, TTank>>, <<TDrone, TSoldier>>,
     <<TVelocity>>, <<TNullVelocity>>, <<TNegative>>, <<TMinusOne>>}

LoopObjects ==
    {JsonObject(ks, r, PlayerOrigin, ts, sa) :
        ks \in {TopRequiredKeys, TopRequiredKeys \cup {"situationAwareness"},
                TopRequiredKeys \ {"round"}},
        r \in RoundIds \ {PyInt("2")}, ts \in LoopTargetLists, sa \in BOOLEAN}

LoopDatagrams == {Timeout, BadJson} \cup {JsonDatagram(o) : o \in LoopObjects}

\* Malformed and partial payloads, for the decoder
MalformedTargets ==
    {[TSoldier EXCEPT !.keys = TargetRequiredKeys \ {k}] : k \in TargetRequiredKeys}
    \cup {[TSoldier EXCEPT !.position = JsonPosition({"x", "y"}, 0, 0, 0)],
          [TVelocity EXCEPT !.velocity = Some(JsonPosition({"x"}, 1, 0, 0))]}

PartialObjects ==
    {JsonObject(ks, PyStr("1-1"), pp, ts, TRUE) :
        ks \in SUBSET (TopRequiredKeys \cup {"situationAwareness"}),
        pp \in {PlayerOrigin, JsonPosition({"x", "z"}, 0, 0, 0)},
        ts \in {<<>>, <<TSoldier>>, <<TTank, TNullVelocity>>, <<TVelocity, TEmptyVelocity>>}
               \cup {<<t>> : t \in MalformedTargets}
               \cup {<<TSoldier, t>> : t \in MalformedTargets}}

Datagrams ==
    LoopDatagrams \cup {RecvError, BadUtf8, JsonDatagram([json |-> "array"]),
                        JsonDatagram([json |-> "number"])}
    \cup {JsonDatagram(o) : o \in PartialObjects}

(***************************************************************************)
(* udp_server.py                                                            *)
(***************************************************************************)
StdExceptions == {"socket.timeout", "OSError", "UnicodeDecodeError", "JSONDecodeError",
                  "KeyError", "TypeError", "ValueError", "AttributeError",
                  "ZeroDivisionError"}

\* isinstance(exc, cls) for the classes named in except clauses
IsInstance(exc, cls) ==
    \/ cls = exc
    \/ cls = "Exception" /\ exc \in StdExceptions
    \/ cls = "OSError" /\ exc = "socket.timeout"
    \/ cls = "ValueError" /\ exc \in {"JSONDecodeError", "UnicodeDecodeError"}

Catches(handlers, exc) == \E i \in 1..Len(handlers) : IsInstance(exc, handlers[i])

\* The except clauses of receive_data; every one of them returns None
InnerHandlers == <<"JSONDecodeError", "KeyError", "Exception">>
OuterHandlersTimeoutOnly == <<"socket.timeout">>
OuterHandlers == <<"socket.timeout", "Exception">>

\* start: the socket object is created before bind, so a failed bind leaves
\* self.socket set (bound is false); a failed socket() leaves it as it was
UdpStartOutcomes(u) ==
    {[udp |-> [socket |-> TRUE, bound |-> TRUE], ret |-> TRUE],
     [udp |-> [socket |-> TRUE, bound |-> FALSE], ret |-> FALSE],
     [udp |-> u, ret |-> FALSE]}

\* stop
UdpStop(u) == IF u.socket THEN [socket |-> FALSE, bound |-> FALSE] ELSE u

\* What recvfrom, decode, json.loads and from_dict do with a datagram
RecvAndParse(d) ==
    IF d.kind = "timeout" THEN [where |-> "outer", exc |-> "socket.timeout", value |-> None]
    ELSE IF d.kind = "oserror" THEN [where |-> "outer", exc |-> "OSError", value |-> None]
    ELSE IF d.body = "bad_utf8"
         THEN [where |-> "inner", exc |-> "UnicodeDecodeError", value |-> None]
    ELSE IF d.body = "bad_json"
         THEN [where |-> "inner", exc |-> "JSONDecodeError", value |-> None]
    ELSE LET parsed == FromDict(d.value)
         IN  [where |-> "inner", exc |-> parsed.exc, value |-> parsed.value]

\* receive_data: [raised, value]; value is None or a GameData
ReceiveData(u, d) ==
    IF ~u.socket THEN [raised |-> "none", value |-> None]
    ELSE LET r == RecvAndParse(d)
         IN  IF r.exc = "none" THEN [raised |-> "none", value |-> r.value]
             ELSE IF r.where = "inner" /\ Catches(InnerHandlers, r.exc)
                  THEN [raised |-> "none", value |-> None]
             ELSE IF Catches(OuterHandlers, r.exc)
                  THEN [raised |-> "none", value |-> None]
             ELSE [raised |-> r.exc, value |-> None]

\* On a socket that was never bound recvfrom fails (or does not return)
ReceivableOn(u) == IF u.socket /\ ~u.bound THEN {RecvError} ELSE Datagrams

(***************************************************************************)
(* threat_analyzer.py                                                       *)
(*                                                                          *)
(* A score is the exact fraction [num, den] with den > 0.  The IFS tier and *)
(* the GPT tier are given by what they return when invoked (ifs_result,     *)
(* gpt_result): None or one of the tick's targets, never an exception.      *)
(***************************************************************************)
Abs(x) == IF x < 0 THEN -x ELSE x

Fraction(n, d) == IF d < 0 THEN [num |-> -n, den |-> -d] ELSE [num |-> n, den |-> d]
Greater(p, q) == p.num * q.den > q.num * p.den

\* calculate_threat_score_simple: 1/(distance+1) * 1/(|angle|+1) * type_factor
CalculateThreatScoreSimple(target) ==
    LET type_factor == IF target.type = "Tank" THEN 2 ELSE 1
        divisor == (target.distance + 1) * (Abs(target.angle) + 1)
    IN  IF target.distance + 1 = 0 THEN [exc |-> "ZeroDivisionError", value |-> Fraction(0, 1)]
        ELSE [exc |-> "none", value |-> Fraction(type_factor, divisor)]

\* The loop of find_most_threatening_target_simple from target i on
RECURSIVE SimpleScan(_, _, _, _)
SimpleScan(targets, i, max_threat_score, best) ==
    IF i > Len(targets) THEN [exc |-> "none", value |-> best]
    ELSE LET threat_score == CalculateThreatScoreSimple(targets[i])
         IN  IF threat_score.exc # "none" THEN [exc |-> threat_score.exc, value |-> None]
             ELSE IF Greater(threat_score.value, max_threat_score)
                  THEN SimpleScan(targets, i + 1, threat_score.value, Some(targets[i]))
             ELSE SimpleScan(targets, i + 1, max_threat_score, best)

\* find_most_threatening_target_simple: max_threat_score starts at -1
FindMostThreateningTargetSimple(gd) ==
    IF gd.targets = <<>> THEN [exc |-> "none", value |-> None]
    ELSE SimpleScan(gd.targets, 1, Fraction(-1, 1), None)

Strategies == {"ifs_first", "gpt_first", "simple_only", "default"}

\* The module-level state after import: ifs_adapter is created only when
\* ENABLE_IFS_ASSESSMENT, client only when ENABLE_GPT_ASSESSMENT (and a key is set)
Configs ==
    {c \in [strategy : Strategies, ENABLE_IFS_ASSESSMENT : BOOLEAN,
            ENABLE_GPT_ASSESSMENT : BOOLEAN, ifs_adapter : BOOLEAN, client : BOOLEAN] :
        /\ c.ifs_adapter => c.ENABLE_IFS_ASSESSMENT
        /\ c.client => c.ENABLE_GPT_ASSESSMENT}

\* The configurations in which every enabled tier was initialised
LoopConfigs ==
    {c \in Configs : c.ifs_adapter = c.ENABLE_IFS_ASSESSMENT
                     /\ c.client = c.ENABLE_GPT_ASSESSMENT}

\* What a tier may return for a tick
TierResults(gd) ==
    {None} \cup {Some(gd.targets[i]) : i \in 1..Len(gd.targets)}

WithTier(tier, r) == [exc |-> r.exc, value |-> r.value, tiers |-> <<tier>> \o r.tiers]

SimpleTier(gd) ==
    LET r == FindMostThreateningTargetSimple(gd)
    IN  [exc |-> r.exc, value |-> r.value, tiers |-> <<"simple">>]

IfsAvailable(c) == c.ENABLE_IFS_ASSESSMENT /\ c.ifs_adapter
GptAvailable(c) == c.ENABLE_GPT_ASSESSMENT /\ c.client

\* A variant of find_most_threatening_target that tries IFS before the LLM
\* under gpt_first as well
FindMostThreateningTargetIfsAlwaysFirst(gd, c, ifs_result, gpt_result) ==
    LET ifs == [exc |-> "none", value |-> ifs_result, tiers |-> <<"ifs">>]
        gpt == [exc |-> "none", value |-> gpt_result, tiers |-> <<"gpt">>]
        simple == SimpleTier(gd)
    IN  IF gd.targets = <<>> THEN [exc |-> "none", value |-> None, tiers |-> <<>>]
        ELSE IF c.strategy \in {"ifs_first", "gpt_first"}
        THEN IF IfsAvailable(c) /\ ~IsNone(ifs_result) THEN ifs
             ELSE LET after_ifs == IF GptAvailable(c) /\ ~IsNone(gpt_result) THEN gpt
                                   ELSE IF GptAvailable(c) THEN WithTier("gpt", simple)
                                   ELSE simple
                  IN  IF IfsAvailable(c) THEN WithTier("ifs", after_ifs) ELSE after_ifs
        ELSE simple

\* find_most_threatening_target: [exc, value, tiers], tiers the scorers invoked in order
FindMostThreateningTarget(gd, c, ifs_result, gpt_result) ==
    LET ifs == [exc |-> "none", value |-> ifs_result, tiers |-> <<"ifs">>]
        gpt == [exc |-> "none", value |-> gpt_result, tiers |-> <<"gpt">>]
        simple == SimpleTier(gd)
    IN  IF gd.targets = <<>> THEN [exc |-> "none", value |-> None, tiers |-> <<>>]
        ELSE IF c.strategy = "ifs_first"
        THEN IF IfsAvailable(c) /\ ~IsNone(ifs_result) THEN ifs
             ELSE LET after_ifs == IF GptAvailable(c) /\ ~IsNone(gpt_result) THEN gpt
                                   ELSE IF GptAvailable(c) THEN WithTier("gpt", simple)
                                   ELSE simple
                  IN  IF IfsAvailable(c) THEN WithTier("ifs", after_ifs) ELSE after_ifs
        ELSE IF c.strategy = "gpt_first"
        THEN IF GptAvailable(c) /\ ~IsNone(gpt_result) THEN gpt
             ELSE LET after_gpt == IF IfsAvailable(c) /\ ~IsNone(ifs_result) THEN ifs
                                   ELSE IF IfsAvailable(c) THEN WithTier("ifs", simple)
                                   ELSE simple
                  IN  IF GptAvailable(c) THEN WithTier("gpt", after_gpt) ELSE after_gpt
        ELSE simple

(***************************************************************************)
(* serial_handler.py                                                        *)
(*                                                                          *)
(* serial_connection.write may raise (SerialException, a write timeout); a  *)
(* write that raises puts nothing on the link.  time.sleep(duration) raises *)
(* ValueError for a negative duration.  Both are caught by the operation's  *)
(* except clause, which returns False.  An outcome of an operation is       *)
(* [wrote, ret]: the lines it wrote, in order, and what it returned.        *)
(***************************************************************************)
NumMotors == 16

Line(m, i, k) == [motor |-> m, intensity |-> i, mode |-> k]
StopLine(m) == Line(m, 0, 0)
IsStop(l) == l.intensity = 0 /\ l.mode = 0

\* connect: serial.Serial(...) opens the port or raises
ConnectOutcomes(s) == {[serial |-> [open |-> TRUE], ret |-> TRUE],
                       [serial |-> s, ret |-> FALSE]}
\* disconnect
Disconnect(s) == IF s.open THEN [open |-> FALSE] ELSE s

\* A variant of the validation of send_vibration that passes the arguments through
CoerceNothing(intensity, mode) == [intensity |-> intensity, mode |-> mode]

\* send_vibration, lines 80-88: the validation of intensity and mode
Coerce(intensity, mode) ==
    [intensity |-> IF intensity \in {200, 255} THEN intensity ELSE 200,
     mode |-> IF mode \in {0, 1, 2, 3} THEN mode ELSE 0]

\* A variant of send_vibration that stops motor 0 whatever motor it started
SendVibrationStopsMotorZero(s, vibrator_id, intensity, duration, mode) ==
    IF ~s.open THEN {[wrote |-> <<>>, ret |-> FALSE]}
    ELSE LET v == Coerce(intensity, mode)
             start_message == Line(vibrator_id, v.intensity, v.mode)
         IN  {[wrote |-> <<>>, ret |-> FALSE], [wrote |-> <<start_message>>, ret |-> FALSE]}
             \cup IF duration < 0 THEN {}
                  ELSE {[wrote |-> <<start_message, StopLine(0)>>, ret |-> TRUE]}

\* send_vibration
SendVibrationOutcomes(s, vibrator_id, intensity, duration, mode) ==
    IF ~s.open THEN {[wrote |-> <<>>, ret |-> FALSE]}
    ELSE LET v == Coerce(intensity, mode)
             start_message == Line(vibrator_id, v.intensity, v.mode)
             stop_message == StopLine(vibrator_id)
         IN  \* the first write raises; the sleep or the second write raises
             {[wrote |-> <<>>, ret |-> FALSE], [wrote |-> <<start_message>>, ret |-> FALSE]}
             \cup IF duration < 0 THEN {}
                  ELSE {[wrote |-> <<start_message, stop_message>>, ret |-> TRUE]}

\* A variant of the start loop that starts every motor whose intensity is not 0
RECURSIVE StartMessagesNonZero(_, _, _)
StartMessagesNonZero(intensities, motor_id, mode) ==
    IF motor_id >= 16 THEN <<>>
    ELSE (IF intensities[motor_id + 1] # 0
          THEN <<Line(motor_id, intensities[motor_id + 1], mode)>> ELSE <<>>)
         \o StartMessagesNonZero(intensities, motor_id + 1, mode)

\* The start loop of send_multi_vibration from motor_id on: int(intensity) > 0
RECURSIVE StartMessages(_, _, _)
StartMessages(intensities, motor_id, mode) ==
    IF motor_id >= NumMotors THEN <<>>
    ELSE (IF intensities[motor_id + 1] > 0
          THEN <<Line(motor_id, intensities[motor_id + 1], mode)>> ELSE <<>>)
         \o StartMessages(intensities, motor_id + 1, mode)

StopMessages == [i \in 1..NumMotors |-> StopLine(i - 1)]

\* send_multi_vibration
SendMultiVibrationOutcomes(s, intensities, duration, mode) ==
    IF ~s.open THEN {[wrote |-> <<>>, ret |-> FALSE]}
    ELSE IF Len(intensities) # 16 THEN {[wrote |-> <<>>, ret |-> FALSE]}
    ELSE LET starts == StartMessages(intensities, 0, mode)
             all == starts \o StopMessages
             \* the number of writes done before a write (or the sleep) raises
             failures == IF duration < 0 THEN 0..Len(starts) ELSE 0..(Len(all) - 1)
         IN  {[wrote |-> SubSeq(all, 1, k), ret |-> FALSE] : k \in failures}
             \cup IF duration < 0 THEN {} ELSE {[wrote |-> all, ret |-> TRUE]}

\* The arguments the driver is called with in the model
VibratorIds == {0, 7, 16}
Intensities == {0, 100, 200, 255}
Modes == {-1, 0, 2, 4}
Durations == {-1, 1}
IntensityList(n, a, b, c) ==
    [i \in 1..n |-> IF i = 1 THEN a ELSE IF i = 8 THEN b ELSE IF i = 16 THEN c ELSE 0]
IntensityLists ==
    {IntensityList(16, a, b, c) : a \in {0, 255}, b \in {137, -5}, c \in {0, 80}}
    \cup {IntensityList(15, 80, 137, 0), IntensityList(17, 80, 137, 255), <<>>}

(***************************************************************************)
(* Floating point.  A float of the model is an integer n standing for       *)
(* n / 2^GridBits whose significand has at most MantissaBits bits; every    *)
(* operation computes the exact result and rounds it to the nearest float,  *)
(* ties to even, as IEEE 754 arithmetic does with 53 bits.  The bearings of *)
(* direction_mapper use AngleBits bits, enough for the sector boundaries.   *)
(***************************************************************************)
Sign(x) == IF x < 0 THEN -1 ELSE IF x > 0 THEN 1 ELSE 0

RECURSIVE Pow2(_)
Pow2(n) == IF n = 0 THEN 1 ELSE 2 * Pow2(n - 1)

One == Pow2(GridBits)

RECURSIVE Significand(_)
Significand(n) == IF n # 0 /\ n % 2 = 0 THEN Significand(n \div 2) ELSE n

IsFloatOf(n, bits) == Significand(Abs(n)) < Pow2(bits)
IsFloat(n) == IsFloatOf(n, MantissaBits)

\* a / d for a >= 0, d > 0, rounded to the nearest integer, ties to even
RoundHalfEven(a, d) ==
    LET fl == a \div d
        rem == a % d
    IN  IF 2 * rem > d \/ (2 * rem = d /\ fl % 2 = 1) THEN fl + 1 ELSE fl

\* The least e >= from with a / b < 2^(bits + e)
RECURSIVE ExponentOf(_, _, _, _)
ExponentOf(a, b, from, bits) ==
    IF a \div Pow2(bits + from) < b THEN from ELSE ExponentOf(a, b, from + 1, bits)

\* The float of the given significand width nearest to a / b (in grid units), b > 0
RoundToFloatOf(a, b, bits) ==
    LET e == ExponentOf(Abs(a), b, 0, bits)
        m == RoundHalfEven(Abs(a), b * Pow2(e))
    IN  Sign(a) * m * Pow2(e)

RoundToFloat(a, b) == RoundToFloatOf(a, b, MantissaBits)

FAdd(x, y) == RoundToFloat(x + y, 1)
FSub(x, y) == RoundToFloat(x - y, 1)
FMul(x, y) == RoundToFloat(x * y, One)
FDiv(x, y) == IF y > 0 THEN RoundToFloat(x * One, y) ELSE RoundToFloat((0 - x) * One, 0 - y)

FMin(x, y) == IF y < x THEN y ELSE x
FMax(x, y) == IF y > x THEN y ELSE x

RECURSIVE FSum(_)
FSum(xs) == IF xs = <<>> THEN 0 ELSE FAdd(FSum(SubSeq(xs, 1, Len(xs) - 1)), xs[Len(xs)])

(***************************************************************************)
(* direction_mapper.py.  A bearing is a float of AngleBits bits, in degrees. *)
(***************************************************************************)
\* n degrees, and n / d degrees for the dyadic constants 11.25 and 22.5
Degrees(n) == n * One
HalfSector == (45 * One) \div 4
Sector == (45 * One) \div 2

\* calculate_direction_angle: degrees(atan2(dx, dz)) brought into [0, 360),
\* for a vector along an axis or a diagonal (atan2(0, 0) is 0)
CalculateDirectionAngle(player_pos, target_pos) ==
    LET dx == target_pos.x - player_pos.x
        dz == target_pos.z - player_pos.z
        octant == <<Sign(dx), Sign(dz)>>
    IN  CASE octant = <<0, 0>> -> Degrees(0)
          [] octant = <<0, 1>> -> Degrees(0)
          [] octant = <<1, 1>> -> Degrees(45)
          [] octant = <<1, 0>> -> Degrees(90)
          [] octant = <<1, -1>> -> Degrees(135)
          [] octant = <<0, -1>> -> Degrees(180)
          [] octant = <<-1, -1>> -> Degrees(225)
          [] octant = <<-1, 0>> -> Degrees(270)
          [] octant = <<-1, 1>> -> Degrees(315)

\* angle % 360 on floats: fmod is exact, and a negative remainder has 360 added
\* to it, which rounds
Mod360(angle) ==
    IF angle >= 0 THEN angle % Degrees(360)
    ELSE LET r == (0 - angle) % Degrees(360)
         IN  IF r = 0 THEN 0 ELSE RoundToFloatOf(Degrees(360) - r, 1, AngleBits)

\* angle_to_motor_id: int((angle % 360 + 11.25) / 22.5) % 16; the quotient is
\* kept in units of 2^-AngleBits, which holds every float of that width from 1/2 up
AngleToMotorId(angle) ==
    LET shifted == RoundToFloatOf(Mod360(angle) + HalfSector, 1, AngleBits)
        quotient == RoundToFloatOf(shifted * Pow2(AngleBits), Sector, AngleBits)
    IN  (quotient \div Pow2(AngleBits)) % 16

\* calculate_motor_for_target
CalculateMotorForTarget(player_pos, target_pos) ==
    AngleToMotorId(CalculateDirectionAngle(player_pos, target_pos))

(***************************************************************************)
(* config.py, as main.py uses it.                                           *)
(***************************************************************************)
VIBRATION_INTENSITY == 255
VIBRATION_DURATION == 1
VIBRATION_MODE_DRONE == 0
VIBRATION_MODE_SOLDIER == 1
DISTANCE_1 == 10
DISTANCE_2 == 30
MIN_PERCEPTIBLE_INTENSITY == 80
MAX_VIBRATION_INTENSITY == 255

(***************************************************************************)
(* main.py                                                                  *)
(***************************************************************************)
\* str.lower() on the type strings of the model
Lower(t) == CASE t = "Drone" -> "drone"
              [] t = "Tank" -> "tank"
              [] t = "Soldier" -> "soldier"
              [] OTHER -> t

\* get_distance_vibration_mode
GetDistanceVibrationMode(distance) ==
    IF distance < DISTANCE_1 THEN 0
    ELSE IF distance < DISTANCE_2 THEN 2
    ELSE 3

\* Lines 163-176: the format spec ".2f" applied to target.velocity, a Position
\* when it is not None, raises TypeError
ReportRaises(gd) == \E i \in 1..Len(gd.targets) : ~IsNone(gd.targets[i].velocity)

\* calculate_all_directions_threat compares target.velocity with 0: a TypeError
\* for a Position
DirectionThreatsRaises(gd) == \E i \in 1..Len(gd.targets) : ~IsNone(gd.targets[i].velocity)

\* The statements of the finally block, in order
CleanupStepsSocketFirst == <<"finally_udp", "finally_serial", "finally_csv", "done">>
CleanupSteps == <<"finally_csv", "finally_serial", "finally_udp", "done">>

AfterStep(step) ==
    LET i == CHOOSE j \in 1..Len(CleanupSteps) : CleanupSteps[j] = step
    IN  CleanupSteps[i + 1]

NoCall == [op |-> "none"]

InitHist == [sa_key |-> "none",
             redelivered |-> FALSE,
             computed |-> [r \in RoundIds |-> 0],
             actuated |-> [r \in RoundIds |-> 0],
             exit |-> "none",
             released |-> <<>>,
             branch |-> "none"]

\* The state at line 153, on entering the try block: UDP server started,
\* serial port connected, csv_logger constructed or None
Init ==
    /\ pc = "loop"
    /\ running = TRUE
    /\ config \in LoopConfigs
    /\ game_data = None
    /\ csv \in {NewCSVLogger, NoCSVLogger}
    /\ serial = [open |-> TRUE]
    /\ wire = <<>>
    /\ udp = [socket |-> TRUE, bound |-> TRUE]
    /\ hist = InitHist
    /\ call = NoCall
    /\ ticks = 0
    /\ most_threatening = None

\* except Exception (line 291): the loop is left and the finally block runs
Raise(exc) ==
    /\ pc' = CleanupSteps[1]
    /\ hist' = [hist EXCEPT !.exit = exc, !.branch = IF pc = "mode" THEN "raise" ELSE @]

\* signal_handler
Signal ==
    /\ pc # "done"
    /\ running
    /\ running' = FALSE
    /\ UNCHANGED <<pc, config, game_data, csv, serial, wire, udp, hist, call, ticks,
                   most_threatening>>

\* A variant of the loop test that never looks at the flag
LoopTestIgnoresFlag ==
    /\ pc = "loop"
    /\ pc' = "recv"
    /\ UNCHANGED <<running, config, game_data, csv, serial, wire, udp, hist, call, ticks,
                   most_threatening>>

\* while running (line 154)
LoopTest ==
    /\ pc = "loop"
    /\ IF running
       THEN pc' = "recv" /\ UNCHANGED hist
       ELSE pc' = CleanupSteps[1] /\ hist' = [hist EXCEPT !.exit = "flag"]
    /\ UNCHANGED <<running, config, game_data, csv, serial, wire, udp, call, ticks,
                   most_threatening>>

\* Lines 156-160: receive_data, and continue when it returned None
Receive ==
    /\ pc = "recv"
    /\ \E d \in LoopDatagrams :
        /\ ticks < MaxTicks \/ d = Timeout
        /\ LET r == ReceiveData(udp, d)
           IN  IF r.raised # "none"
               THEN Raise(r.raised) /\ UNCHANGED game_data
               ELSE /\ game_data' = r.value
                    /\ pc' = IF IsNone(r.value) THEN "loop" ELSE "process"
                    /\ hist' = [hist EXCEPT
                                   !.branch = "none",
                                   !.sa_key = IF IsNone(r.value) THEN "none"
                                              ELSE IF "situationAwareness" \in d.value.keys
                                              THEN "present" ELSE "absent",
                                   !.redelivered =
                                       /\ ~IsNone(r.value) /\ ~IsNone(game_data)
                                       /\ Val(r.value).round = Val(game_data).round]
    /\ ticks' = IF ticks < MaxTicks THEN ticks + 1 ELSE ticks
    /\ wire' = <<>>
    /\ most_threatening' = None
    /\ UNCHANGED <<running, config, csv, serial, udp, call>>

\* Process with the test of line 179 after the CSV write: a tick without targets
\* gets a row too
ProcessLogsEmptyTick ==
    /\ pc = "process"
    /\ LET gd == Val(game_data)
           round_exists == IF csv.present THEN CheckRoundExists(csv, gd.round) ELSE FALSE
       IN  IF ReportRaises(gd)
           THEN Raise("TypeError") /\ UNCHANGED <<csv, most_threatening>>
           ELSE IF round_exists
           THEN pc' = "loop" /\ UNCHANGED <<csv, most_threatening, hist>>
           ELSE IF gd.targets = <<>>
           THEN /\ pc' = "loop"
                /\ csv' = IF csv.present THEN LogRoundData(csv, gd.round, None) ELSE csv
                /\ UNCHANGED <<most_threatening, hist>>
           ELSE \E ifs_result \in TierResults(gd), gpt_result \in TierResults(gd) :
                   LET r == FindMostThreateningTarget(gd, config, ifs_result, gpt_result)
                       counted == [hist EXCEPT !.computed[gd.round] = @ + 1]
                   IN  IF r.exc # "none" \/ DirectionThreatsRaises(gd)
                       THEN /\ pc' = CleanupSteps[1]
                            /\ hist' = [counted EXCEPT
                                           !.exit = IF r.exc # "none" THEN r.exc
                                                    ELSE "TypeError"]
                            /\ UNCHANGED <<csv, most_threatening>>
                       ELSE /\ most_threatening' = r.value
                            /\ csv' = IF csv.present
                                      THEN LogRoundData(csv, gd.round, r.value)
                                      ELSE csv
                            /\ hist' = counted
                            /\ pc' = "mode"
    /\ UNCHANGED <<running, config, game_data, serial, wire, udp, call, ticks>>

\* Lines 162-202: report the tick, skip it when it has no targets or its round
\* is in the CSV file, else compute and log
Process ==
    /\ pc = "process"
    /\ LET gd == Val(game_data)
           round_exists == IF csv.present THEN CheckRoundExists(csv, gd.round) ELSE FALSE
       IN  IF ReportRaises(gd)
           THEN Raise("TypeError") /\ UNCHANGED <<csv, most_threatening>>
           ELSE IF gd.targets = <<>> \/ round_exists
           THEN pc' = "loop" /\ UNCHANGED <<csv, most_threatening, hist>>
           ELSE \E ifs_result \in TierResults(gd), gpt_result \in TierResults(gd) :
                   LET r == FindMostThreateningTarget(gd, config, ifs_result, gpt_result)
                       counted == [hist EXCEPT !.computed[gd.round] = @ + 1]
                   IN  IF r.exc # "none" \/ DirectionThreatsRaises(gd)
                       THEN /\ pc' = CleanupSteps[1]
                            /\ hist' = [counted EXCEPT
                                           !.exit = IF r.exc # "none" THEN r.exc
                                                    ELSE "TypeError"]
                            /\ UNCHANGED <<csv, most_threatening>>
                       ELSE /\ most_threatening' = r.value
                            /\ csv' = IF csv.present
                                      THEN LogRoundData(csv, gd.round, r.value)
                                      ELSE csv
                            /\ hist' = counted
                            /\ pc' = "mode"
    /\ UNCHANGED <<running, config, game_data, serial, wire, udp, call, ticks>>

\* The intensity lists normalize_threat_to_intensity hands to the driver in the
\* model: 16 entries, each 0 or between the perceptibility floor and the ceiling
BurstLists ==
    {l \in {IntensityList(16, a, b, 0) : a \in {0, 255}, b \in {0, 137}} :
        \A i \in 1..16 :
           l[i] = 0 \/ (MIN_PERCEPTIBLE_INTENSITY <= l[i] /\ l[i] <= MAX_VIBRATION_INTENSITY)}

\* In the loop the serial link either takes every write of a call or none
LinkOutcomes(outcomes) == {o \in outcomes : o.ret \/ o.wrote = <<>>}

\* Lines 204-287: read game_data.situationAwareness, then the burst or the two pulses
Mode ==
    /\ pc = "mode"
    /\ LET gd == Val(game_data)
           acted == [hist EXCEPT !.actuated[gd.round] = @ + 1]
       IN  IF ~HasAttr(gd, "situationAwareness")
           THEN Raise("AttributeError") /\ UNCHANGED wire
           ELSE IF gd.situationAwareness
           THEN \E intensities_list \in BurstLists :
                  \E o \in LinkOutcomes(SendMultiVibrationOutcomes(serial, intensities_list,
                                                                   VIBRATION_DURATION, 0)) :
                     /\ wire' = wire \o o.wrote
                     /\ hist' = [acted EXCEPT !.branch = "burst"]
                     /\ pc' = "loop"
           ELSE IF IsNone(most_threatening)
           THEN Raise("AttributeError") /\ UNCHANGED wire
           ELSE LET target == Val(most_threatening)
                    motor_id == CalculateMotorForTarget(gd.playerPosition, target.position)
                    distance_mode == GetDistanceVibrationMode(target.distance)
                    type_mode == IF Lower(target.type) = "drone"
                                 THEN VIBRATION_MODE_DRONE ELSE VIBRATION_MODE_SOLDIER
                IN  \E o1 \in LinkOutcomes(SendVibrationOutcomes(serial, motor_id,
                                          VIBRATION_INTENSITY, VIBRATION_DURATION,
                                          distance_mode)),
                       o2 \in LinkOutcomes(SendVibrationOutcomes(serial, motor_id,
                                          VIBRATION_INTENSITY, VIBRATION_DURATION,
                                          type_mode)) :
                       /\ wire' = wire \o o1.wrote \o o2.wrote
                       /\ hist' = [acted EXCEPT !.branch = "pulses"]
                       /\ pc' = "loop"
    /\ UNCHANGED <<running, config, game_data, csv, serial, udp, call, ticks,
                   most_threatening>>

\* finally: if csv_logger: csv_logger.close()
FinallyCsv ==
    /\ pc = "finally_csv"
    /\ csv' = IF csv.present THEN CloseCSV(csv) ELSE csv
    /\ hist' = [hist EXCEPT !.released = IF csv.present /\ csv.open
                                         THEN Append(@, "csv") ELSE @]
    /\ pc' = AfterStep("finally_csv")
    /\ UNCHANGED <<running, config, game_data, serial, wire, udp, call, ticks,
                   most_threatening>>

\* finally: serial_handler.disconnect()
FinallySerial ==
    /\ pc = "finally_serial"
    /\ serial' = Disconnect(serial)
    /\ hist' = [hist EXCEPT !.released = IF serial.open THEN Append(@, "serial") ELSE @]
    /\ pc' = AfterStep("finally_serial")
    /\ UNCHANGED <<running, config, game_data, csv, wire, udp, call, ticks,
                   most_threatening>>

\* finally: udp_server.stop()
FinallyUdp ==
    /\ pc = "finally_udp"
    /\ udp' = UdpStop(udp)
    /\ hist' = [hist EXCEPT !.released = IF udp.socket THEN Append(@, "udp") ELSE @]
    /\ pc' = AfterStep("finally_udp")
    /\ UNCHANGED <<running, config, game_data, csv, serial, wire, call, ticks,
                   most_threatening>>

Next ==
    \/ Signal
    \/ LoopTest
    \/ Receive
    \/ Process
    \/ Mode
    \/ FinallyCsv
    \/ FinallySerial
    \/ FinallyUdp

Spec == Init /\ [][Next]_vars

(***************************************************************************)
(* The control loop: replay guard, loop exit, cleanup, mode selection.      *)
(***************************************************************************)
RowsOf(r) == {i \in 1..Len(csv.rows) : csv.rows[i].round = CsvWriteCell(r)}

ExpectedReleases ==
    (IF csv.present THEN <<"csv">> ELSE <<>>) \o <<"serial", "udp">>

IsPrefix(p, q) == Len(p) <= Len(q) /\ \A i \in 1..Len(p) : p[i] = q[i]

C4_LoopExitsOnlyOnFlag ==
    hist.exit \in {"none", "flag"}

\* C9: on every exit from the loop the CSV logger is closed, then the serial port
\* disconnected, then the UDP socket closed, each released exactly once.
C9_CleanupInOrder ==
    /\ IsPrefix(hist.released, ExpectedReleases)
    /\ hist.exit # "none" => pc \in {CleanupSteps[i] : i \in 1..Len(CleanupSteps)}
    /\ hist.exit = "none" => hist.released = <<>>
    /\ pc = "done" =>
         /\ hist.released = ExpectedReleases
         /\ ~csv.open /\ ~serial.open /\ ~udp.socket

\* The loop left on an exception with a logger present, and everything released
C9_Witness ==
    /\ pc = "done"
    /\ hist.exit \notin {"none", "flag"}
    /\ hist.released = <<"csv", "serial", "udp">>

\* C10: a tick decoded from a JSON object without a situationAwareness key is
\* handled by the single-target branch (the two pulses).
C10_AbsentKeyTakesSingleTargetBranch ==
    (hist.sa_key = "absent" /\ hist.branch # "none") => hist.branch = "pulses"

\* C20: every new round whose target was computed and recorded gets exactly
\* one actuation pattern, the 16-motor burst or the two pulses (rounds whose
\* scoring itself raised are left aside).
C20_OnePatternPerProcessedRound ==
    (pc # "mode" /\ hist.exit \notin {"ZeroDivisionError", "TypeError"}) =>
        \A r \in DOMAIN hist.computed : hist.actuated[r] = hist.computed[r]

(***************************************************************************)
(* The components on their own: each specification below calls the         *)
(* operations of one component in any order with any of the arguments of   *)
(* the model, and records the last call in call.                           *)
(***************************************************************************)
IdleConfig == [strategy |-> "default", ENABLE_IFS_ASSESSMENT |-> FALSE,
               ENABLE_GPT_ASSESSMENT |-> FALSE, ifs_adapter |-> FALSE, client |-> FALSE]

\* The parts of the state a component specification does not use
Idle(component) ==
    /\ pc = component
    /\ running = TRUE
    /\ game_data = None
    /\ wire = <<>>
    /\ call = NoCall
    /\ ticks = 0
    /\ most_threatening = None

(***************************************************************************)
(* CSVLogger: log_round_data, check_round_exists, close.                    *)
(* hist.logged is the set of round ids log_round_data has been called with. *)
(***************************************************************************)
DecodedTarget(t) == TargetFromDict(t).value

LoggerInit ==
    /\ Idle("logger")
    /\ config = IdleConfig
    /\ csv = NewCSVLogger
    /\ serial = [open |-> FALSE]
    /\ udp = [socket |-> FALSE, bound |-> FALSE]
    /\ hist = [logged |-> {}]

CallLogRoundData ==
    /\ Len(csv.rows) < MaxRows
    /\ \E round_number \in RoundIds, target \in {None, Some(DecodedTarget(TSoldier))} :
        /\ csv' = LogRoundData(csv, round_number, target)
        /\ hist' = [hist EXCEPT !.logged = @ \cup {round_number}]
        /\ call' = [op |-> "log_round_data", round_number |-> round_number,
                    open |-> csv.open]
    /\ UNCHANGED <<pc, running, config, game_data, serial, wire, udp, ticks,
                   most_threatening>>

CallCheckRoundExists ==
    /\ \E round_number \in RoundIds :
        call' = [op |-> "check_round_exists", round_number |-> round_number,
                 ret |-> CheckRoundExists(csv, round_number)]
    /\ UNCHANGED <<pc, running, config, game_data, csv, serial, wire, udp, hist, ticks,
                   most_threatening>>

CallClose ==
    /\ csv.open
    /\ csv' = CloseCSV(csv)
    /\ call' = [op |-> "close"]
    /\ UNCHANGED <<pc, running, config, game_data, serial, wire, udp, hist, ticks,
                   most_threatening>>

LoggerNext == CallLogRoundData \/ CallCheckRoundExists \/ CallClose

LoggerSpec == LoggerInit /\ [][LoggerNext]_vars

\* C3: once log_round_data(r, ...) has been called, check_round_exists(r) returns
\* true, and check_round_exists(r') returns false for every round id r' that
\* log_round_data has not been called with.
C3_CheckAgreesWithLogged ==
    call.op = "check_round_exists" => (call.ret <=> call.round_number \in hist.logged)

(***************************************************************************)
(* UDPServer: start, receive_data, stop.                                    *)
(***************************************************************************)
UdpInit ==
    /\ Idle("udp")
    /\ config = IdleConfig
    /\ csv = NoCSVLogger
    /\ serial = [open |-> FALSE]
    /\ udp = [socket |-> FALSE, bound |-> FALSE]
    /\ hist = <<>>

CallStart ==
    /\ \E o \in UdpStartOutcomes(udp) :
        /\ udp' = o.udp
        /\ call' = [op |-> "start", ret |-> o.ret]
    /\ UNCHANGED <<pc, running, config, game_data, csv, serial, wire, hist, ticks,
                   most_threatening>>

CallReceiveData ==
    /\ \E d \in ReceivableOn(udp) :
        LET r == ReceiveData(udp, d)
        IN  /\ call' = [op |-> "receive_data", datagram |-> d, started |-> udp.socket,
                        raised |-> r.raised, ret |-> r.value]
            /\ game_data' = r.value
    /\ UNCHANGED <<pc, running, config, csv, serial, wire, udp, hist, ticks,
                   most_threatening>>

CallStop ==
    /\ udp' = UdpStop(udp)
    /\ call' = [op |-> "stop"]
    /\ UNCHANGED <<pc, running, config, game_data, csv, serial, wire, hist, ticks,
                   most_threatening>>

UdpNext == CallStart \/ CallReceiveData \/ CallStop

UdpSpec == UdpInit /\ [][UdpNext]_vars

\* A datagram that is UTF-8 JSON text of an object with the required keys, a
\* player position and target positions of exactly x, y, z
WellFormedPosition(p) == p.keys = PositionKeys

WellFormedTarget(t) ==
    /\ TargetRequiredKeys \subseteq t.keys
    /\ WellFormedPosition(t.position)
    /\ ("velocity" \in t.keys /\ ~IsNone(t.velocity) /\ Val(t.velocity).keys # {})
          => WellFormedPosition(Val(t.velocity))

Decodes(d) ==
    /\ d.kind = "data"
    /\ d.body = "json"
    /\ d.value.json = "object"
    /\ TopRequiredKeys \subseteq d.value.keys
    /\ WellFormedPosition(d.value.playerPosition)
    /\ \A i \in 1..Len(d.value.targets) : WellFormedTarget(d.value.targets[i])

\* C6: receive_data never raises; on a started server it returns the GameData of
\* a datagram that decodes, and it returns None on a timeout, a receive error,
\* invalid UTF-8 or JSON, a missing required field, any other parse failure, and
\* when the server has not been started or has been stopped.
C6_ReceiveDataNeverRaises ==
    call.op = "receive_data" =>
        /\ call.raised = "none"
        /\ IF call.started /\ Decodes(call.datagram)
           THEN /\ ~IsNone(call.ret)
                /\ Val(call.ret).round = call.datagram.value.round
                /\ Len(Val(call.ret).targets) = Len(call.datagram.value.targets)
           ELSE IsNone(call.ret)

\* recvfrom failed with an OSError on a started server and None came back
C6_Witness ==
    /\ call.op = "receive_data"
    /\ call.started
    /\ call.datagram = RecvError
    /\ call.raised = "none"
    /\ IsNone(call.ret)

(***************************************************************************)
(* SerialHandler: connect, disconnect, send_vibration, send_multi_vibration.*)
(* wire holds the lines the last call wrote.                                *)
(***************************************************************************)
SerialInit ==
    /\ Idle("driver")
    /\ config = IdleConfig
    /\ csv = NoCSVLogger
    /\ serial = [open |-> FALSE]
    /\ udp = [socket |-> FALSE, bound |-> FALSE]
    /\ hist = <<>>

CallConnect ==
    /\ \E o \in ConnectOutcomes(serial) :
        /\ serial' = o.serial
        /\ call' = [op |-> "connect", ret |-> o.ret]
    /\ wire' = <<>>
    /\ UNCHANGED <<pc, running, config, game_data, csv, udp, hist, ticks, most_threatening>>

CallDisconnect ==
    /\ serial' = Disconnect(serial)
    /\ call' = [op |-> "disconnect"]
    /\ wire' = <<>>
    /\ UNCHANGED <<pc, running, config, game_data, csv, udp, hist, ticks, most_threatening>>

CallSendVibration ==
    /\ \E vibrator_id \in VibratorIds, intensity \in Intensities,
          duration \in Durations, mode \in Modes :
        \E o \in SendVibrationOutcomes(serial, vibrator_id, intensity, duration, mode) :
            /\ wire' = o.wrote
            /\ call' = [op |-> "send_vibration", connected |-> serial.open,
                        vibrator_id |-> vibrator_id, intensity |-> intensity,
                        duration |-> duration, mode |-> mode, ret |-> o.ret]
    /\ UNCHANGED <<pc, running, config, game_data, csv, serial, udp, hist, ticks,
                   most_threatening>>

CallSendMultiVibration ==
    /\ \E intensities \in IntensityLists, duration \in Durations, mode \in Modes :
        \E o \in SendMultiVibrationOutcomes(serial, intensities, duration, mode) :
            /\ wire' = o.wrote
            /\ call' = [op |-> "send_multi_vibration", connected |-> serial.open,
                        intensities |-> intensities, duration |-> duration,
                        mode |-> mode, ret |-> o.ret]
    /\ UNCHANGED <<pc, running, config, game_data, csv, serial, udp, hist, ticks,
                   most_threatening>>

SerialNext == CallConnect \/ CallDisconnect \/ CallSendVibration \/ CallSendMultiVibration

SerialSpec == SerialInit /\ [][SerialNext]_vars

\* The start and stop lines of the protocol for a send_vibration call
StartLineOf(c) ==
    Line(c.vibrator_id,
         IF c.intensity = 200 \/ c.intensity = 255 THEN c.intensity ELSE 200,
         IF 0 <= c.mode /\ c.mode <= 3 THEN c.mode ELSE 0)

StopLineOf(c) == Line(c.vibrator_id, 0, 0)

StartLines == {i \in 1..Len(wire) : ~IsStop(wire[i])}

\* C7, as stated: on a connected link send_vibration(m, ...) writes exactly the
\* start command for motor m and then the stop command "m,0,0"; when the link is
\* not connected it writes nothing and returns False.
C7_AlwaysStartThenStop ==
    call.op = "send_vibration" =>
        IF call.connected
        THEN wire = <<StartLineOf(call), StopLineOf(call)>>
        ELSE wire = <<>> /\ ~call.ret

\* C7, amended: send_vibration(m, ...) returns True exactly when it has written the
\* start command for motor m and then the stop command "m,0,0", and nothing else;
\* when it returns False on a connected link (a write or the sleep raised) it has
\* written nothing or the start command only; when the link is not connected it
\* writes nothing and returns False.
C7_StartThenStopWhenTrue ==
    call.op = "send_vibration" =>
        /\ call.ret => wire = <<StartLineOf(call), StopLineOf(call)>>
        /\ (call.connected /\ ~call.ret) => wire \in {<<>>, <<StartLineOf(call)>>}
        /\ ~call.connected => (wire = <<>> /\ ~call.ret)

\* Motor 7 was started and stopped on a connected link
C7_Witness ==
    /\ call.op = "send_vibration"
    /\ call.connected
    /\ call.ret
    /\ call.vibrator_id = 7
    /\ wire = <<Line(7, 255, 2), Line(7, 0, 0)>>

\* A driver call with arguments the loop can pass: any for send_vibration, for
\* send_multi_vibration mode 0 and 16 intensities between 0 and 255
LoopLikeCall ==
    \/ call.op = "send_vibration"
    \/ /\ call.op = "send_multi_vibration"
       /\ call.mode = 0
       /\ \A i \in 1..Len(call.intensities) :
            0 <= call.intensities[i] /\ call.intensities[i] <= 255

ChainDistances == {-2, -1, 3}
ChainAngles == {0, -3}

ChainTarget(id, angle, distance, type) ==
    [id |-> id, angle |-> angle, distance |-> distance, type |-> type,
     position |-> [x |-> 0, y |-> 0, z |-> 1], speed |-> 0, direction |-> 0,
     velocity |-> None]

ChainTargets(id) ==
    {t \in {ChainTarget(id, a, d, type) : a \in ChainAngles, d \in ChainDistances,
                                          type \in {"Tank", "Soldier"}} :
        t.angle # 0 => t.distance = 3}

ChainGameData ==
    {[round |-> PyStr("1-1"), playerPosition |-> [x |-> 0, y |-> 0, z |-> 0],
      targets |-> ts] :
        ts \in {<<>>} \cup {<<t>> : t \in ChainTargets(1)}
               \cup {<<t1, t2>> : t1 \in ChainTargets(1),
                                   t2 \in {t \in ChainTargets(2) : t.type = "Soldier"}}}

ChainInit ==
    /\ Idle("chain")
    /\ config \in Configs
    /\ csv = NoCSVLogger
    /\ serial = [open |-> FALSE]
    /\ udp = [socket |-> FALSE, bound |-> FALSE]
    /\ hist = <<>>

\* The scorers keep no state between calls, so a behaviour makes one call
CallFindMostThreateningTarget ==
    /\ call = NoCall
    /\ \E gd \in ChainGameData :
        \E ifs_result \in TierResults(gd), gpt_result \in TierResults(gd) :
            LET r == FindMostThreateningTarget(gd, config, ifs_result, gpt_result)
            IN  /\ game_data' = Some(gd)
                /\ call' = [op |-> "find_most_threatening_target", exc |-> r.exc,
                            value |-> r.value, tiers |-> r.tiers,
                            ifs_result |-> ifs_result, gpt_result |-> gpt_result]
    /\ UNCHANGED <<pc, running, config, csv, serial, wire, udp, hist, ticks,
                   most_threatening>>

CallFindMostThreateningTargetSimple ==
    /\ call = NoCall
    /\ \E gd \in ChainGameData :
        LET r == FindMostThreateningTargetSimple(gd)
        IN  /\ game_data' = Some(gd)
            /\ call' = [op |-> "find_most_threatening_target_simple", exc |-> r.exc,
                        value |-> r.value]
    /\ UNCHANGED <<pc, running, config, csv, serial, wire, udp, hist, ticks,
                   most_threatening>>

ChainNext == CallFindMostThreateningTarget \/ CallFindMostThreateningTargetSimple

ChainSpec == ChainInit /\ [][ChainNext]_vars

\* C5: for every non-empty target list and under every strategy setting,
\* find_most_threatening_target returns a target that is an element of the list.
C5_ReturnsElementOfTargets ==
    (call.op = "find_most_threatening_target" /\ Val(game_data).targets # <<>>) =>
        /\ call.exc = "none"
        /\ ~IsNone(call.value)
        /\ \E i \in 1..Len(Val(game_data).targets) :
              Val(game_data).targets[i] = Val(call.value)

\* The order in which a strategy consults the tiers
TierOrder(strategy) ==
    IF strategy = "ifs_first" THEN <<"ifs", "gpt", "simple">>
    ELSE IF strategy = "gpt_first" THEN <<"gpt", "ifs", "simple">>
    ELSE <<"simple">>

\* Whether a tier is enabled and initialised under the configuration
TierAvailable(tier) ==
    IF tier = "ifs" THEN config.ENABLE_IFS_ASSESSMENT /\ config.ifs_adapter
    ELSE IF tier = "gpt" THEN config.ENABLE_GPT_ASSESSMENT /\ config.client
    ELSE TRUE

\* Whether a tier, when invoked in the recorded call, ends the chain
TierEndsChain(tier) ==
    IF tier = "ifs" THEN ~IsNone(call.ifs_result)
    ELSE IF tier = "gpt" THEN ~IsNone(call.gpt_result)
    ELSE TRUE

\* C19: for a non-empty target list the tiers are invoked in the order of
\* the strategy (ifs_first: IFS, LLM, heuristic; gpt_first: LLM, IFS,
\* heuristic; otherwise the heuristic alone), a disabled or unavailable tier
\* is not invoked, and no tier is invoked after one that returned a target.
C19_TiersInStrategyOrder ==
    (call.op = "find_most_threatening_target" /\ Val(game_data).targets # <<>>) =>
        LET available == SelectSeq(TierOrder(config.strategy), TierAvailable)
            last == CHOOSE k \in 1..Len(available) :
                        /\ TierEndsChain(available[k])
                        /\ \A j \in 1..(k - 1) : ~TierEndsChain(available[j])
        IN  call.tiers = SubSeq(available, 1, last)

C19_Witness ==
    /\ call.op = "find_most_threatening_target"
    /\ config.strategy = "gpt_first"
    /\ config.ENABLE_GPT_ASSESSMENT /\ config.client /\ config.ifs_adapter
    /\ IsNone(call.gpt_result) /\ ~IsNone(call.ifs_result)
    /\ call.tiers = <<"gpt", "ifs">>
    /\ call.value = call.ifs_result

(***************************************************************************)
(* GameData.from_dict on its own.                                           *)
(***************************************************************************)
DecodeInit ==
    /\ Idle("decoder")
    /\ config = IdleConfig
    /\ csv = NoCSVLogger
    /\ serial = [open |-> FALSE]
    /\ udp = [socket |-> FALSE, bound |-> FALSE]
    /\ hist = <<>>

CallFromDict ==
    /\ \E data \in PartialObjects \cup LoopObjects :
        LET r == FromDict(data)
        IN  /\ call' = [op |-> "from_dict", data |-> data, exc |-> r.exc]
            /\ game_data' = r.value
    /\ UNCHANGED <<pc, running, config, csv, serial, wire, udp, hist, ticks,
                   most_threatening>>

DecodeNext == CallFromDict

DecodeSpec == DecodeInit /\ [][DecodeNext]_vars

MissingRequired(data) ==
    \/ TopRequiredKeys \ data.keys # {}
    \/ \E i \in 1..Len(data.targets) : TargetRequiredKeys \ data.targets[i].keys # {}

VelocityAbsentOrEmpty(t) ==
    \/ "velocity" \notin t.keys
    \/ t.velocity = None
    \/ Val(t.velocity).keys = {}

\* C11: from_dict gives speed and direction 0.0 to every target that omits them,
\* leaves velocity absent when it is missing or empty, and fails the whole decode,
\* returning no record, when round, playerPosition, targets or a target's id,
\* angle, distance, type or position is missing.
C11_DefaultsAndRequiredFields ==
    call.op = "from_dict" =>
        /\ MissingRequired(call.data) => (call.exc # "none" /\ IsNone(game_data))
        /\ call.exc # "none" => IsNone(game_data)
        /\ call.exc = "none" =>
             /\ ~IsNone(game_data)
             /\ Len(Val(game_data).targets) = Len(call.data.targets)
             /\ \A i \in 1..Len(call.data.targets) :
                  LET t == call.data.targets[i]
                      target == Val(game_data).targets[i]
                  IN  /\ target.speed = IF "speed" \in t.keys THEN t.speed ELSE 0
                      /\ target.direction = IF "direction" \in t.keys THEN t.direction ELSE 0
                      /\ VelocityAbsentOrEmpty(t) => IsNone(target.velocity)
                      /\ ~VelocityAbsentOrEmpty(t) => ~IsNone(target.velocity)

\* A tick decoded whose targets omit speed and direction, one with "velocity": {}
C11_Witness ==
    /\ call.op = "from_dict"
    /\ call.exc = "none"
    /\ call.data.targets = <<TVelocity, TEmptyVelocity>>
    /\ Val(game_data).targets[2].speed = 0
    /\ IsNone(Val(game_data).targets[2].velocity)
    /\ ~IsNone(Val(game_data).targets[1].velocity)

(***************************************************************************)
(* direction_mapper.angle_to_motor_id and the sector test of                *)
(* situation_awareness on their own.  The bearings of the model are the     *)
(* floats within an eighth of a degree of a sector boundary (an odd         *)
(* multiple of 11.25) or of a sector centre, over more than one turn in     *)
(* both directions.                                                         *)
(***************************************************************************)
Bearings ==
    UNION {{n \in (k * HalfSector - One \div 8)..(k * HalfSector + One \div 8) :
                IsFloatOf(n, AngleBits)} : k \in (0 - MaxSector)..MaxSector}

\* DIRECTION_RANGES: direction id -> (start, end)
DIRECTION_RANGES ==
    [d \in 0..15 |-> IF d = 0 THEN <<Degrees(360) - HalfSector, HalfSector>>
                     ELSE <<d * Sector - HalfSector, d * Sector + HalfSector>>]

\* normalize_angle: add or subtract 360 until the angle is in [0, 360)
RECURSIVE NormalizeAngle(_)
NormalizeAngle(angle) ==
    IF angle < 0 THEN NormalizeAngle(RoundToFloatOf(angle + Degrees(360), 1, AngleBits))
    ELSE IF angle >= Degrees(360)
    THEN NormalizeAngle(RoundToFloatOf(angle - Degrees(360), 1, AngleBits))
    ELSE angle

\* is_angle_in_range
IsAngleInRange(angle, range_start, range_end) ==
    LET a == NormalizeAngle(angle)
        lo == NormalizeAngle(range_start)
        hi == NormalizeAngle(range_end)
    IN  IF lo <= hi THEN lo <= a /\ a < hi ELSE a >= lo \/ a < hi

\* The directions whose range holds the bearing: the entries of the threat field
\* that calculate_direction_threat_score adds a target at that bearing to
DirectionsOf(angle) ==
    {d \in 0..15 : IsAngleInRange(angle, DIRECTION_RANGES[d][1], DIRECTION_RANGES[d][2])}

MotorInit ==
    /\ pc = "mapper"
    /\ running = TRUE
    /\ game_data = None
    /\ wire = <<>>
    /\ call \in {[op |-> "bearing", angle |-> a] : a \in Bearings}
    /\ ticks = 0
    /\ most_threatening = None
    /\ config = IdleConfig
    /\ csv = NoCSVLogger
    /\ serial = [open |-> FALSE]
    /\ udp = [socket |-> FALSE, bound |-> FALSE]
    /\ hist = <<>>

CallAngleToMotorId ==
    /\ call.op = "bearing"
    /\ call' = [op |-> "angle_to_motor_id", angle |-> call.angle,
                ret |-> AngleToMotorId(call.angle),
                directions |-> DirectionsOf(call.angle)]
    /\ UNCHANGED <<pc, running, config, game_data, csv, serial, wire, udp, hist, ticks,
                   most_threatening>>

MotorNext == CallAngleToMotorId

MotorSpec == MotorInit /\ [][MotorNext]_vars

\* C12: for every bearing angle_to_motor_id returns a motor in 0..15, the one whose
\* sector [22.5 m - 11.25, 22.5 m + 11.25) holds the bearing mod 360; bearings in
\* [348.75, 360) and [0, 11.25) map to motor 0, 11.25 to motor 1, 180 to motor 8.
C12_MotorOfBearing ==
    call.op = "angle_to_motor_id" =>
        LET b == call.angle % Degrees(360)
        IN  /\ call.ret \in 0..15
            /\ (b - (call.ret * Sector - HalfSector)) % Degrees(360) < Sector
            /\ (b >= Degrees(360) - HalfSector \/ b < HalfSector) => call.ret = 0
            /\ b = HalfSector => call.ret = 1
            /\ b = Degrees(180) => call.ret = 8

\* C23: for every bearing in [0, 360) exactly one of the 16 direction ranges
\* holds it under is_angle_in_range, and its id is angle_to_motor_id(bearing).
C23_RangeAgreesWithMotor ==
    (call.op = "angle_to_motor_id" /\ 0 <= call.angle /\ call.angle < Degrees(360)) =>
        call.directions = {call.ret}

(***************************************************************************)
(* situation_awareness.normalize_threat_to_intensity.  Scores and the       *)
(* threshold are in thousandths.  A score map is a function on a set of     *)
(* direction ids (a dict); the result is a function on 0..15.               *)
(***************************************************************************)
Directions == 0..(NumMotors - 1)

RECURSIVE MaxOf(_)
MaxOf(S) ==
    LET x == CHOOSE y \in S : TRUE
    IN  IF S = {x} THEN x
        ELSE LET m == MaxOf(S \ {x}) IN IF x > m THEN x ELSE m

Get(d, k, default) == IF k \in DOMAIN d THEN d[k] ELSE default

NoVibration == [i \in Directions |-> 0]

\* The mapping test_intensity_mapping.py calls the old one: int(normalized * max_intensity)
NormalizeThreatToIntensityLinear(threat_scores, min_intensity, max_intensity, threshold) ==
    IF DOMAIN threat_scores = {} THEN NoVibration
    ELSE LET max_threat == MaxOf({threat_scores[k] : k \in DOMAIN threat_scores})
         IN  IF max_threat <= 0 THEN NoVibration
             ELSE [direction_id \in Directions |->
                     LET threat == Get(threat_scores, direction_id, 0)
                     IN  IF threat < threshold THEN 0
                         ELSE (threat * max_intensity) \div max_threat]

\* normalize_threat_to_intensity: int(min + threat / max_threat * (max - min)),
\* on the scores of the model the floor of the exact quotient
NormalizeThreatToIntensity(threat_scores, min_intensity, max_intensity, threshold) ==
    IF DOMAIN threat_scores = {} THEN NoVibration
    ELSE LET max_threat == MaxOf({threat_scores[k] : k \in DOMAIN threat_scores})
         IN  IF max_threat <= 0 THEN NoVibration
             ELSE [direction_id \in Directions |->
                     LET threat == Get(threat_scores, direction_id, 0)
                     IN  IF threat < threshold THEN 0
                         ELSE (min_intensity * max_threat
                               + threat * (max_intensity - min_intensity)) \div max_threat]

Scores == {-100, 0, 5, 10, 250, 900, 1000}
Thresholds == {0, 10, 300}
IntensityRanges == {<<80, 255>>, <<0, 255>>, <<200, 200>>}

ScoreMap(a, b, c) ==
    [i \in Directions |-> IF i = 0 THEN a ELSE IF i = 7 THEN b ELSE IF i = 15 THEN c ELSE 0]

\* Full maps, the map of the spec's example ({0: 0.9, 1: 0.0}) and the empty map
ScoreMaps ==
    {ScoreMap(a, b, c) : a \in Scores, b \in Scores, c \in Scores}
    \cup {[i \in {0, 1} |-> IF i = 0 THEN 900 ELSE 0], [i \in {} |-> 0]}

NormalizeInit ==
    /\ pc = "normalize"
    /\ running = TRUE
    /\ game_data = None
    /\ wire = <<>>
    /\ call \in {[op |-> "scores", threat_scores |-> m, min_intensity |-> r[1],
                  max_intensity |-> r[2], threshold |-> th] :
                    m \in ScoreMaps, r \in IntensityRanges, th \in Thresholds}
    /\ ticks = 0
    /\ most_threatening = None
    /\ config = IdleConfig
    /\ csv = NoCSVLogger
    /\ serial = [open |-> FALSE]
    /\ udp = [socket |-> FALSE, bound |-> FALSE]
    /\ hist = <<>>

CallNormalizeThreatToIntensity ==
    /\ call.op = "scores"
    /\ call' = [call EXCEPT !.op = "normalize_threat_to_intensity"]
    /\ hist' = NormalizeThreatToIntensity(call.threat_scores, call.min_intensity,
                                          call.max_intensity, call.threshold)
    /\ UNCHANGED <<pc, running, config, game_data, csv, serial, wire, udp, ticks,
                   most_threatening>>

NormalizeNext == CallNormalizeThreatToIntensity

NormalizeSpec == NormalizeInit /\ [][NormalizeNext]_vars

ScoreOf(i) == IF i \in DOMAIN call.threat_scores THEN call.threat_scores[i] ELSE 0

\* C13: for a score map with a positive score the result has the 16 entries 0..15;
\* a sector whose score is below the threshold gets 0, every other sector an integer
\* in [min_intensity, max_intensity], and a highest-scoring sector whose score is at
\* least the threshold gets max_intensity.  With no positive score all 16 are 0.
C13_IntensityRange ==
    call.op = "normalize_threat_to_intensity" =>
        /\ DOMAIN hist = 0..15
        /\ IF \E i \in 0..15 : ScoreOf(i) > 0
           THEN \A i \in 0..15 :
                  /\ ScoreOf(i) < call.threshold => hist[i] = 0
                  /\ ScoreOf(i) >= call.threshold =>
                       (call.min_intensity <= hist[i] /\ hist[i] <= call.max_intensity)
                  /\ ((\A j \in 0..15 : ScoreOf(j) <= ScoreOf(i))
                      /\ ScoreOf(i) >= call.threshold) => hist[i] = call.max_intensity
           ELSE \A i \in 0..15 : hist[i] = 0

\* The spec's example, {0: 0.9, 1: 0.0} with 80, 255 and 0.01: 255 and 0; and a
\* weak sector lifted to the floor
C13_Witness ==
    /\ call.op = "normalize_threat_to_intensity"
    /\ call.min_intensity = 80 /\ call.max_intensity = 255 /\ call.threshold = 10
    /\ \/ DOMAIN call.threat_scores = {0, 1} /\ hist[0] = 255 /\ hist[1] = 0
       \/ call.threat_scores = ScoreMap(1000, 10, 5) /\ hist[7] = 81 /\ hist[15] = 0

(***************************************************************************)
(* IFS_ThreatAssessment/ifs_core.py: the IFS constructor and IFSOperations. *)
(***************************************************************************)
\* IFS.__post_init__: clamp, normalise when mu + nu > 1, then pi
IFS(raw_mu, raw_nu) ==
    LET mu1 == FMax(0, FMin(One, raw_mu))
        nu1 == FMax(0, FMin(One, raw_nu))
        over == FAdd(mu1, nu1) > One
        total == FAdd(mu1, nu1)
        mu2 == IF over THEN FDiv(mu1, total) ELSE mu1
        nu2 == IF over THEN FDiv(nu1, total) ELSE nu1
    IN  [mu |-> mu2, nu |-> nu2, pi |-> FSub(FSub(One, mu2), nu2)]

Complement(a) == IFS(a.nu, a.mu)
Union(a, b) == IFS(FMax(a.mu, b.mu), FMin(a.nu, b.nu))
Intersection(a, b) == IFS(FMin(a.mu, b.mu), FMax(a.nu, b.nu))

\* weighted_average: [exc, value]
WeightedAverage(ifs_list, weights) ==
    LET weight_sum == FSum(weights)
        normalized_weights == [i \in 1..Len(weights) |-> FDiv(weights[i], weight_sum)]
        mu_weighted == FSum([i \in 1..Len(weights) |-> FMul(normalized_weights[i], ifs_list[i].mu)])
        nu_weighted == FSum([i \in 1..Len(weights) |-> FMul(normalized_weights[i], ifs_list[i].nu)])
    IN  IF Len(ifs_list) # Len(weights) THEN [exc |-> Some("ValueError"), value |-> None]
        ELSE IF weight_sum = 0 THEN [exc |-> Some("ValueError"), value |-> None]
        ELSE [exc |-> None, value |-> Some(IFS(mu_weighted, nu_weighted))]

\* Raw degrees handed to the constructor: every float from -0.5 to 1.5
RawDegrees == {n \in (0 - One \div 2)..(One + One \div 2) : IsFloat(n)}
\* Operands of the set operations
OperandDegrees == {0, One \div 4, 5 * (One \div 8), 11 * (One \div 16), One, One + One \div 2}
Operands == {IFS(m, n) : m \in OperandDegrees, n \in OperandDegrees}
ListOperands == {IFS(m, n) : m \in {One \div 4, 11 * (One \div 16)}, n \in {0, 5 * (One \div 8)}}
Weights == {0 - One, 0, One \div 2, One}
UpTo2(S) == {<<>>} \cup {<<x>> : x \in S} \cup {<<x, y>> : x \in S, y \in S}

IfsArgs(fn, args) == [op |-> "args", fn |-> fn, args |-> args, exc |-> None, value |-> None]

IfsInit ==
    /\ pc = "ifs"
    /\ running = TRUE
    /\ game_data = None
    /\ wire = <<>>
    /\ ticks = 0
    /\ most_threatening = None
    /\ config = IdleConfig
    /\ csv = NoCSVLogger
    /\ serial = [open |-> FALSE]
    /\ udp = [socket |-> FALSE, bound |-> FALSE]
    /\ hist = <<>>
    /\ call \in {IfsArgs("IFS", <<m, n>>) : m \in RawDegrees, n \in RawDegrees}
          \cup {IfsArgs("complement", <<a>>) : a \in Operands}
          \cup {IfsArgs(fn, <<a, b>>) : fn \in {"union", "intersection"}, a \in Operands, b \in Operands}
          \cup {IfsArgs("weighted_average", <<l, w>>) : l \in UpTo2(ListOperands), w \in UpTo2(Weights)}

IfsReturn(v) ==
    /\ call' = [call EXCEPT !.op = "return", !.value = Some(v)]
    /\ UNCHANGED <<pc, running, config, game_data, csv, serial, wire, udp, hist, ticks, most_threatening>>

CallIFS ==
    /\ call.op = "args" /\ call.fn = "IFS"
    /\ IfsReturn(IFS(call.args[1], call.args[2]))

CallComplement ==
    /\ call.op = "args" /\ call.fn = "complement"
    /\ IfsReturn(Complement(call.args[1]))

CallUnion ==
    /\ call.op = "args" /\ call.fn = "union"
    /\ IfsReturn(Union(call.args[1], call.args[2]))

CallIntersection ==
    /\ call.op = "args" /\ call.fn = "intersection"
    /\ IfsReturn(Intersection(call.args[1], call.args[2]))

CallWeightedAverage ==
    /\ call.op = "args" /\ call.fn = "weighted_average"
    /\ LET r == WeightedAverage(call.args[1], call.args[2])
       IN  call' = [call EXCEPT !.op = "return", !.exc = r.exc, !.value = r.value]
    /\ UNCHANGED <<pc, running, config, game_data, csv, serial, wire, udp, hist, ticks, most_threatening>>

IfsNext == CallIFS \/ CallComplement \/ CallUnion \/ CallIntersection \/ CallWeightedAverage

IfsSpec == IfsInit /\ [][IfsNext]_vars

\* C14: every constructed IFS, and every result of complement, union,
\* intersection and weighted_average, has mu and nu in [0,1], mu + nu <= 1
\* (the sum as the program computes it) and a stored pi that is >= 0.
C14_IfsInvariant ==
    (call.op = "return" /\ ~IsNone(call.value)) =>
        LET a == Val(call.value)
        IN  /\ 0 <= a.mu /\ a.mu <= One
            /\ 0 <= a.nu /\ a.nu <= One
            /\ FAdd(a.mu, a.nu) <= One
            /\ a.pi >= 0

\* C15: weighted_average raises, and returns nothing, whenever the two lists
\* differ in length or the weights sum to zero or less.
C15_InvalidWeightsRaise ==
    (call.op = "return" /\ call.fn = "weighted_average"
        /\ (Len(call.args[1]) # Len(call.args[2]) \/ FSum(call.args[2]) <= 0)) =>
        (call.exc = Some("ValueError") /\ IsNone(call.value))

(***************************************************************************)
(* IFS_ThreatAssessment/threat_evaluator.py: rank_targets.                  *)
(* An enemy of the model carries, as threat, the comprehensive score that   *)
(* evaluate_single_target aggregates from its fields (in thousandths).      *)
(***************************************************************************)
EvaluateSingleTarget(enemy) ==
    [enemy_id |-> enemy.id, comprehensive_threat_score |-> enemy.threat]

\* list.sort(key, reverse) is stable: equal keys keep their input order
Before(r1, r2, reverse) ==
    IF reverse THEN r1.comprehensive_threat_score > r2.comprehensive_threat_score
    ELSE r1.comprehensive_threat_score < r2.comprehensive_threat_score

RECURSIVE InsertByKey(_, _, _)
InsertByKey(sorted, r, reverse) ==
    IF sorted = <<>> THEN <<r>>
    ELSE IF Before(r, Head(sorted), reverse) THEN <<r>> \o sorted
    ELSE <<Head(sorted)>> \o InsertByKey(Tail(sorted), r, reverse)

RECURSIVE SortBy(_, _)
SortBy(results, reverse) ==
    IF results = <<>> THEN <<>>
    ELSE InsertByKey(SortBy(SubSeq(results, 1, Len(results) - 1), reverse),
                     results[Len(results)], reverse)

RankTargetsAscending(enemies) ==
    LET results == [i \in 1..Len(enemies) |-> EvaluateSingleTarget(enemies[i])]
        sorted == SortBy(results, FALSE)
    IN  [i \in 1..Len(sorted) |->
            [enemy_id |-> sorted[i].enemy_id,
             comprehensive_threat_score |-> sorted[i].comprehensive_threat_score,
             rank |-> i]]

RankTargets(enemies) ==
    LET results == [i \in 1..Len(enemies) |-> EvaluateSingleTarget(enemies[i])]
        sorted == SortBy(results, TRUE)
    IN  [i \in 1..Len(sorted) |->
            [enemy_id |-> sorted[i].enemy_id,
             comprehensive_threat_score |-> sorted[i].comprehensive_threat_score,
             rank |-> i]]

EnemyIds == {1, 2}
EnemyThreats == {-400, 250, 700}
Enemies == [id : EnemyIds, threat : EnemyThreats]
EnemyLists == UpTo2(Enemies) \cup {<<x, y, z>> : x \in Enemies, y \in Enemies, z \in Enemies}

RankInit ==
    /\ pc = "evaluator"
    /\ running = TRUE
    /\ game_data = None
    /\ wire = <<>>
    /\ ticks = 0
    /\ most_threatening = None
    /\ config = IdleConfig
    /\ csv = NoCSVLogger
    /\ serial = [open |-> FALSE]
    /\ udp = [socket |-> FALSE, bound |-> FALSE]
    /\ hist = <<>>
    /\ call \in {[op |-> "enemies", enemies |-> l, results |-> <<>>] : l \in EnemyLists}

CallRankTargets ==
    /\ call.op = "enemies"
    /\ call' = [op |-> "rank_targets", enemies |-> call.enemies,
                results |-> RankTargets(call.enemies)]
    /\ UNCHANGED <<pc, running, config, game_data, csv, serial, wire, udp, hist, ticks, most_threatening>>

RankNext == CallRankTargets

RankSpec == RankInit /\ [][RankNext]_vars

\* The number of positions of a sequence holding an element that satisfies test
CountWhere(seq, test(_)) == Cardinality({i \in 1..Len(seq) : test(seq[i])})

\* C16: rank_targets returns one result per input enemy, in order of
\* non-increasing comprehensive_threat_score, with rank 1..N in list order.
C16_RankingIsSortedPermutation ==
    call.op = "rank_targets" =>
        /\ Len(call.results) = Len(call.enemies)
        /\ \A e \in Enemies :
              LET IsE(x) == x = e
                  ResultOfE(r) == r.enemy_id = e.id /\ r.comprehensive_threat_score = e.threat
              IN  CountWhere(call.results, ResultOfE) = CountWhere(call.enemies, IsE)
        /\ \A i \in 1..Len(call.results) :
              /\ call.results[i].rank = i
              /\ \A j \in i..Len(call.results) :
                    call.results[i].comprehensive_threat_score
                        >= call.results[j].comprehensive_threat_score

C16_Witness ==
    /\ call.op = "rank_targets"
    /\ Len(call.enemies) = 3
    /\ call.enemies[1].threat < call.enemies[2].threat
    /\ call.enemies[3].threat = call.enemies[1].threat
    /\ call.results[1].enemy_id = call.enemies[2].id
    /\ call.results[3].rank = 3

(***************************************************************************)
(* IFS_ThreatAssessment/terrain_analyzer.py: check_line_of_sight.           *)
(* Coordinates are integers; rectangle edges are kept in halves of a unit.  *)
(***************************************************************************)
\* One pass of the loop over the four boundaries, from boundary i on
RECURSIVE ClipEntryOnly(_, _, _, _, _)
ClipEntryOnly(p, q, i, t_min, t_max) ==
    IF i > 4 THEN TRUE
    ELSE IF p[i] = 0
         THEN IF q[i] < 0 THEN FALSE ELSE ClipEntryOnly(p, q, i + 1, t_min, t_max)
    ELSE LET t == Fraction(q[i], p[i])
             lo == IF Greater(t, t_min) THEN t ELSE t_min
         IN  IF Greater(lo, t_max) THEN FALSE ELSE ClipEntryOnly(p, q, i + 1, lo, t_max)

RECURSIVE Clip(_, _, _, _, _)
Clip(p, q, i, t_min, t_max) ==
    IF i > 4 THEN TRUE
    ELSE IF p[i] = 0
         THEN IF q[i] < 0 THEN FALSE ELSE Clip(p, q, i + 1, t_min, t_max)
    ELSE LET t == Fraction(q[i], p[i])
             lo == IF p[i] < 0 /\ Greater(t, t_min) THEN t ELSE t_min
             hi == IF p[i] > 0 /\ Greater(t_max, t) THEN t ELSE t_max
         IN  IF Greater(lo, hi) THEN FALSE ELSE Clip(p, q, i + 1, lo, hi)

LineRectIntersectionEntryOnly(x1, y1, x2, y2, rect_left, rect_bottom, rect_right, rect_top) ==
    LET dx == x2 - x1
        dy == y2 - y1
    IN  ClipEntryOnly(<<0 - dx, dx, 0 - dy, dy>>,
                      <<x1 - rect_left, rect_right - x1, y1 - rect_bottom, rect_top - y1>>,
                      1, Fraction(0, 1), Fraction(1, 1))

\* _line_rect_intersection (Liang-Barsky); all arguments in halves of a unit
LineRectIntersection(x1, y1, x2, y2, rect_left, rect_bottom, rect_right, rect_top) ==
    LET dx == x2 - x1
        dy == y2 - y1
    IN  Clip(<<0 - dx, dx, 0 - dy, dy>>,
             <<x1 - rect_left, rect_right - x1, y1 - rect_bottom, rect_top - y1>>,
             1, Fraction(0, 1), Fraction(1, 1))

\* _line_intersects_building and _line_intersects_obstacle
LineIntersectsBox(x1, z1, x2, z2, box) ==
    LineRectIntersection(2 * x1, 2 * z1, 2 * x2, 2 * z2,
                         2 * box.x - box.width, 2 * box.z - box.depth,
                         2 * box.x + box.width, 2 * box.z + box.depth)

\* The ids of the boxes of a list that the segment meets, in list order
RECURSIVE Blocking(_, _, _)
Blocking(boxes, pos1, pos2) ==
    IF boxes = <<>> THEN <<>>
    ELSE (IF LineIntersectsBox(pos1[1], pos1[2], pos2[1], pos2[2], Head(boxes))
          THEN <<Head(boxes).id>> ELSE <<>>) \o Blocking(Tail(boxes), pos1, pos2)

\* check_line_of_sight; visibility_ratio in tenths
CheckLineOfSight(terrain, pos1, pos2) ==
    LET blocking_buildings == Blocking(terrain.buildings, pos1, pos2)
        blocking_obstacles == Blocking(terrain.obstacles, pos1, pos2)
        total_blockers == Len(blocking_buildings) + Len(blocking_obstacles)
    IN  [is_blocked |-> total_blockers > 0,
         blocking_buildings |-> blocking_buildings,
         blocking_obstacles |-> blocking_obstacles,
         visibility_ratio |-> IF total_blockers = 0 THEN 10
                              ELSE IF 10 - total_blockers * 3 > 0 THEN 10 - total_blockers * 3
                              ELSE 0,
         blocked_segments |-> total_blockers]

TestBuilding == [id |-> 1, x |-> 10, z |-> 10, width |-> 8, depth |-> 8]
TestObstacle == [id |-> 1, x |-> 20, z |-> 20, width |-> 2, depth |-> 2]
TestTerrain == [buildings |-> <<TestBuilding>>, obstacles |-> <<TestObstacle>>]
Terrains == {TestTerrain,
             [buildings |-> <<>>, obstacles |-> <<>>],
             [buildings |-> <<>>, obstacles |-> <<TestObstacle>>],
             [buildings |-> <<TestBuilding, [TestBuilding EXCEPT !.id = 2, !.x = 30, !.width = 3]>>,
              obstacles |-> <<>>]}
Positions == {<<0, 0>>, <<10, 10>>, <<50, 50>>, <<0, 50>>, <<0, 20>>, <<20, 0>>, <<30, 6>>}

TerrainInit ==
    /\ pc = "terrain"
    /\ running = TRUE
    /\ game_data = None
    /\ wire = <<>>
    /\ ticks = 0
    /\ most_threatening = None
    /\ config = IdleConfig
    /\ csv = NoCSVLogger
    /\ serial = [open |-> FALSE]
    /\ udp = [socket |-> FALSE, bound |-> FALSE]
    /\ hist \in Terrains
    /\ call \in {[op |-> "positions", pos1 |-> a, pos2 |-> b, result |-> None] :
                    a \in Positions, b \in Positions}

CallCheckLineOfSight ==
    /\ call.op = "positions"
    /\ call' = [op |-> "check_line_of_sight", pos1 |-> call.pos1, pos2 |-> call.pos2,
                result |-> Some(CheckLineOfSight(hist, call.pos1, call.pos2))]
    /\ UNCHANGED <<pc, running, config, game_data, csv, serial, wire, udp, hist, ticks, most_threatening>>

TerrainNext == CallCheckLineOfSight

TerrainSpec == TerrainInit /\ [][TerrainNext]_vars

SightCall(a, b) ==
    hist = TestTerrain /\ call.op = "check_line_of_sight" /\ call.pos1 = a /\ call.pos2 = b

Dec(n, d) == RoundToFloat(n * One, d)

\* exp(a / b) times ExpScale for a >= 0, b > 0, by its power series
RECURSIVE ExpSeries(_, _, _, _)
ExpSeries(a, b, n, term) ==
    IF term = 0 THEN 0 ELSE term + ExpSeries(a, b, n + 1, (term * a) \div (b * n))

\* math.exp(-(a / b)) for a >= 0, b > 0
FExpNeg(a, b) == RoundToFloat(((ExpScale * ExpScale) \div ExpSeries(a, b, 1, ExpScale)) * One, ExpScale)

\* IFSConverter.from_real_number with min_val and max_val given
FromRealNumber(value, ideal, tolerance, min_val, max_val) ==
    LET mu == FExpNeg((value - ideal) * (value - ideal), 2 * tolerance * tolerance)
        range_span == max_val - min_val
        deviation == Abs(value - ideal)
        nu1 == IF range_span > 0 THEN FMin(Dec(9, 10), RoundToFloat(deviation * One, range_span))
               ELSE Dec(1, 10)
        nu2 == IF FAdd(mu, nu1) > One THEN FSub(FSub(One, mu), Dec(5, 100)) ELSE nu1
    IN  IFS(mu, nu2)

distance_thresholds == [critical |-> 10, high |-> 20, medium |-> 35, low |-> 50]

\* ThreatIndicators.evaluate_distance: [ifs, threat_score, zone]
EvaluateDistance(distance) ==
    LET zone == IF distance <= distance_thresholds.critical THEN "critical"
                ELSE IF distance <= distance_thresholds.high THEN "high"
                ELSE IF distance <= distance_thresholds.medium THEN "medium"
                ELSE "low"
        near == FromRealNumber(distance, 0, 5, 0, distance_thresholds.critical)
        close == FromRealNumber(distance, distance_thresholds.critical, 5,
                                distance_thresholds.critical, distance_thresholds.high)
        decay_factor == FExpNeg(distance - distance_thresholds.medium, 15)
        ifs == CASE zone = "critical" ->
                      IFS(FMin(Dec(95, 100), FAdd(near.mu, Dec(15, 100))),
                          FMax(Dec(2, 100), FSub(near.nu, Dec(1, 10))))
                 [] zone = "high" ->
                      IFS(FMin(Dec(85, 100), FAdd(close.mu, Dec(1, 10))),
                          FMax(Dec(5, 100), FSub(close.nu, Dec(5, 100))))
                 [] zone = "medium" ->
                      FromRealNumber(distance, distance_thresholds.high, 7,
                                     distance_thresholds.high, distance_thresholds.medium)
                 [] OTHER ->
                      IFS(FMax(Dec(1, 10), FMul(Dec(4, 10), decay_factor)),
                          FMin(Dec(8, 10),
                               FAdd(Dec(5, 10), FMul(FSub(One, decay_factor), Dec(3, 10)))))
    IN  [ifs |-> ifs, threat_score |-> FSub(ifs.mu, ifs.nu), zone |-> zone]

DistanceInit ==
    /\ pc = "indicators"
    /\ running = TRUE
    /\ game_data = None
    /\ wire = <<>>
    /\ ticks = 0
    /\ most_threatening = None
    /\ config = IdleConfig
    /\ csv = NoCSVLogger
    /\ serial = [open |-> FALSE]
    /\ udp = [socket |-> FALSE, bound |-> FALSE]
    /\ hist = <<>>
    /\ call \in {[op |-> "distances", d1 |-> d1, d2 |-> d2, r1 |-> None, r2 |-> None] :
                    d1 \in 0..MaxDistance, d2 \in 0..MaxDistance}

CallEvaluateDistance ==
    /\ call.op = "distances"
    /\ call' = [call EXCEPT !.op = "evaluate_distance",
                            !.r1 = Some(EvaluateDistance(call.d1)),
                            !.r2 = Some(EvaluateDistance(call.d2))]
    /\ UNCHANGED <<pc, running, config, game_data, csv, serial, wire, udp, hist, ticks, most_threatening>>

DistanceNext == CallEvaluateDistance

DistanceSpec == DistanceInit /\ [][DistanceNext]_vars

\* C18: for distances 0 <= d1 < d2 <= 50 the threat score of d1 is at least
\* the threat score of d2, also when the two lie in different zones.
C18_CloserIsNoLessThreatening ==
    (call.op = "evaluate_distance" /\ call.d1 < call.d2 /\ call.d2 <= 50) =>
        Val(call.r1).threat_score >= Val(call.r2).threat_score

(***************************************************************************)
(* The driver again: the burst of send_multi_vibration.                     *)
(***************************************************************************)
\* The lines a burst writes when nothing fails, for a recorded call: a start
\* line per motor selected by the test, in ascending order, then the 16 stops
BurstStarts(c, NonZeroOnly) ==
    LET candidates == [i \in 1..Len(c.intensities) |-> Line(i - 1, c.intensities[i], c.mode)]
        Positive(l) == l.intensity > 0
        NonZero(l) == l.intensity # 0
    IN  IF NonZeroOnly THEN SelectSeq(candidates, NonZero) ELSE SelectSeq(candidates, Positive)

AllStops == [i \in 1..16 |-> Line(i - 1, 0, 0)]

BurstAccepted == call.connected /\ Len(call.intensities) = 16

\* C21, as stated: send_multi_vibration writes nothing and returns False unless
\* the link is connected and 16 intensities are given; otherwise it writes the
\* start lines of the motors with a non-zero intensity, ascending, and then the
\* stop lines of all 16 motors.
C21_NonZeroStartsThenAllStops ==
    call.op = "send_multi_vibration" =>
        IF BurstAccepted
        THEN wire = BurstStarts(call, TRUE) \o AllStops
        ELSE wire = <<>> /\ ~call.ret

\* C21, amended: unless the link is connected and 16 intensities are given,
\* send_multi_vibration writes nothing and returns False; otherwise it returns
\* True exactly when it has written the start lines of the motors whose
\* intensity is greater than 0, ascending, followed by the stop lines of all 16
\* motors, and it returns False after a proper prefix of those lines when a
\* write or the sleep raises.
C21_PositiveStartsThenAllStops ==
    call.op = "send_multi_vibration" =>
        LET expected == BurstStarts(call, FALSE) \o AllStops
        IN  /\ ~BurstAccepted => (wire = <<>> /\ ~call.ret)
            /\ call.ret => wire = expected
            /\ (BurstAccepted /\ ~call.ret) => (IsPrefix(wire, expected) /\ wire # expected)

\* A completed burst whose list holds a negative intensity for motor 7
C21_Witness ==
    /\ call.op = "send_multi_vibration"
    /\ call.ret
    /\ call.intensities[8] < 0
    /\ call.intensities[1] = 255
    /\ wire[1] = Line(0, 255, call.mode)
    /\ IsStop(wire[Len(wire)]) /\ wire[Len(wire)].motor = 15

ProgramStep ==
    LoopTest \/ Receive \/ Process \/ Mode \/ FinallyCsv \/ FinallySerial \/ FinallyUdp

LiveSpec == Spec /\ WF_vars(ProgramStep)

\* C24: once the signal handler has cleared the running flag, the loop test
\* starts no further iteration (only the iteration in flight goes on to its
\* receive), and the program reaches the end of its cleanup.
C24_ShutdownAfterSignal ==
    /\ [][~running => ~(pc = "loop" /\ pc' = "recv")]_vars
    /\ (~running ~> pc = "done")

\* The flag was cleared, the loop test saw it and the cleanup has run
C24_Witness ==
    /\ ~running
    /\ pc = "done"
    /\ hist.exit = "flag"
    /\ hist.released = ExpectedReleases


\* C25: a decoded tick with an empty target list is skipped whole: the step that
\* handles it goes back to the loop test and changes neither the round log, nor the
\* bytes on the serial link, nor the scoring result, nor the count of scored or
\* actuated rounds (the step is the one that moves the loop on from line 162; the
\* signal handler may run in between). So when the next tick carries the same round id with targets,
\* and that id was never scored, it is scored as a new round.
C25_EmptyTickLeavesNoTrace ==
    /\ [][(pc = "process" /\ pc' # "process" /\ Val(game_data).targets = <<>>)
            => /\ pc' = "loop"
               /\ UNCHANGED <<csv, wire, most_threatening>>
               /\ hist'.computed = hist.computed
               /\ hist'.actuated = hist.actuated]_vars
    /\ [][(/\ pc = "process"
           /\ pc' # "process"
           /\ hist.redelivered
           /\ Val(game_data).targets # <<>>
           /\ ~ReportRaises(Val(game_data))
           /\ hist.computed[Val(game_data).round] = 0)
            => hist'.computed[Val(game_data).round] = 1]_vars

\* With a CSV logger: a round id came first without targets, then with targets, and
\* the second tick was scored and is the only row of the log
C25_Witness ==
    /\ csv.present
    /\ hist.redelivered
    /\ pc = "mode"
    /\ hist.computed[Val(game_data).round] = 1
    /\ Len(csv.rows) = 1
    /\ csv.rows[1].round = CsvWriteCell(Val(game_data).round)


(***************************************************************************)
(* IFS_ThreatAssessment/threat_evaluator.py: find_most_threatening.         *)
(* A dict is a record; the batch terrain data has the key 'enemies', the    *)
(* data of one enemy the keys 'visibility' and 'environment'.               *)
(***************************************************************************)
\* What analyze_tactical_position reports for one enemy in open ground, its line
\* of sight blocked or not
EnemyTerrain(is_blocked) ==
    [visibility |-> [is_blocked |-> is_blocked], environment |-> "open"]

\* Lines 134-158 and 162-176 of evaluate_single_target: the visibility indicator is
\* read from terrain_data only when it has the key 'visibility', else an open line
\* of sight is assumed; a blocked line of sight lowers the aggregated score
EvaluateSingleTargetOnTerrain(enemy, terrain_data) ==
    LET blocked == /\ ~IsNone(terrain_data)
                   /\ "visibility" \in DOMAIN Val(terrain_data)
                   /\ Val(terrain_data).visibility.is_blocked
    IN  [enemy_id |-> enemy.id,
         comprehensive_threat_score |-> IF blocked THEN enemy.threat - 95 ELSE enemy.threat]

\* Lines 238-240 and 279-281: terrain_data['enemies'].get(enemy['id'], None)
EnemyTerrainData(enemy, terrain_data) ==
    IF ~IsNone(terrain_data) /\ "enemies" \in DOMAIN Val(terrain_data)
    THEN Val(terrain_data).enemies[enemy.id]
    ELSE None

\* rank_targets with its terrain_data argument
RECURSIVE EvaluateAll(_, _)
EvaluateAll(enemies, terrain_data) ==
    IF enemies = <<>> THEN <<>>
    ELSE <<EvaluateSingleTargetOnTerrain(Head(enemies),
                                         EnemyTerrainData(Head(enemies), terrain_data))>>
         \o EvaluateAll(Tail(enemies), terrain_data)

RankTargetsOnTerrain(enemies, terrain_data) ==
    LET results == SortBy(EvaluateAll(enemies, terrain_data), TRUE)
    IN  [i \in 1..Len(results) |->
            [enemy_id |-> results[i].enemy_id,
             comprehensive_threat_score |-> results[i].comprehensive_threat_score,
             rank |-> i]]

\* The loop of lines 277-287 from enemy i on; most_threatening is None while
\* max_threat_score is -inf
RECURSIVE ScanForMaximum(_, _, _, _)
ScanForMaximum(enemies, terrain_data, i, most_threatening_so_far) ==
    IF i > Len(enemies) THEN most_threatening_so_far
    ELSE LET result == EvaluateSingleTargetOnTerrain(enemies[i],
                                                     EnemyTerrainData(enemies[i], terrain_data))
             greater == \/ IsNone(most_threatening_so_far)
                        \/ result.comprehensive_threat_score
                              > Val(most_threatening_so_far).comprehensive_threat_score
         IN  ScanForMaximum(enemies, terrain_data, i + 1,
                            IF greater THEN Some(result) ELSE most_threatening_so_far)

\* find_most_threatening: the one-enemy shortcut of lines 270-271 hands the whole
\* terrain_data to evaluate_single_target
FindMostThreatening(enemies, terrain_data) ==
    IF enemies = <<>> THEN None
    ELSE IF Len(enemies) = 1
    THEN Some(EvaluateSingleTargetOnTerrain(enemies[1], terrain_data))
    ELSE LET found == Val(ScanForMaximum(enemies, terrain_data, 1, None))
         IN  Some([enemy_id |-> found.enemy_id,
                   comprehensive_threat_score |-> found.comprehensive_threat_score,
                   rank |-> 1])

\* terrain_data: None, or what batch_analyze_enemies returns for the enemies it was
\* given (an enemy it was not given has no entry: get returns None)
BatchTerrains ==
    {None} \cup
    {Some([enemies |-> f]) :
        f \in [EnemyIds -> {None, Some(EnemyTerrain(FALSE)), Some(EnemyTerrain(TRUE))}]}

FindInit ==
    /\ pc = "evaluator"
    /\ running = TRUE
    /\ game_data = None
    /\ wire = <<>>
    /\ ticks = 0
    /\ most_threatening = None
    /\ config = IdleConfig
    /\ csv = NoCSVLogger
    /\ serial = [open |-> FALSE]
    /\ udp = [socket |-> FALSE, bound |-> FALSE]
    /\ hist = <<>>
    /\ call \in {[op |-> "enemies", enemies |-> l, terrain_data |-> t,
                  value |-> None, ranked |-> <<>>] :
                    l \in UpTo2(Enemies), t \in BatchTerrains}

CallFindMostThreatening ==
    /\ call.op = "enemies"
    /\ call' = [call EXCEPT
                   !.op = "find_most_threatening",
                   !.value = FindMostThreatening(call.enemies, call.terrain_data),
                   !.ranked = RankTargetsOnTerrain(call.enemies, call.terrain_data)]
    /\ UNCHANGED <<pc, running, config, game_data, csv, serial, wire, udp, hist, ticks, most_threatening>>

FindNext == CallFindMostThreatening

FindSpec == FindInit /\ [][FindNext]_vars

\* C26: on every enemy list, with or without batch terrain data, the result of
\* find_most_threatening has the enemy id and the comprehensive_threat_score of the
\* first element of rank_targets on the same inputs; on an empty list it is None.
C26_SameAsFirstRanked ==
    call.op = "find_most_threatening" =>
        IF call.enemies = <<>> THEN IsNone(call.value)
        ELSE /\ ~IsNone(call.value)
             /\ Val(call.value).enemy_id = call.ranked[1].enemy_id
             /\ Val(call.value).comprehensive_threat_score
                   = call.ranked[1].comprehensive_threat_score


(***************************************************************************)
(* threat_analyzer_ifs.py: IFSThreatAnalyzerAdapter.find_most_threatening.  *)
(* The evaluator and the terrain analyzer are the adapter's attributes:     *)
(* each call returns a value or raises.                                     *)
(***************************************************************************)
\* target.type as from_dict stores it: the JSON value, a string or not
AdapterTypes == {PyStr("Tank"), PyStr("Soldier"), PyInt("5")}
AdapterTargets == [id : EnemyIds, type : AdapterTypes]

\* convert_target_to_enemy: target.type.lower() raises AttributeError for an int
ConvertTargetToEnemy(target) ==
    IF target.type.kind # "str" THEN [exc |-> "AttributeError", value |-> None]
    ELSE [exc |-> "none",
          value |-> Some([id |-> target.id,
                          type |-> IF Lower(target.type.text) = "tank"
                                   THEN "ifv" ELSE "soldier"])]

\* Line 86: the list comprehension stops at the first target that raises
ConvertRaises(targets) ==
    \E i \in 1..Len(targets) : ConvertTargetToEnemy(targets[i]).exc # "none"

\* What evaluator.find_most_threatening may do: raise, return None, or return a
\* result for some enemy id
EvaluatorOutcomes ==
    {[exc |-> "Exception", value |-> None], [exc |-> "none", value |-> None]}
    \cup {[exc |-> "none", value |-> Some([enemy_id |-> i])] : i \in EnemyIds \cup {3}}

\* terrain_analyzer: None, or an analyzer whose batch_analyze_enemies returns or raises
TerrainOutcomes ==
    {None, Some([exc |-> "Exception", value |-> None]),
     Some([exc |-> "none", value |-> Some("batch")])}

\* Lines 112-121: the first target whose id is the result's enemy_id, else nothing
RECURSIVE TargetWithId(_, _)
TargetWithId(targets, enemy_id) ==
    IF targets = <<>> THEN None
    ELSE IF Head(targets).id = enemy_id THEN Some(Head(targets))
    ELSE TargetWithId(Tail(targets), enemy_id)

\* find_most_threatening without the handler of lines 126-128
AdapterFindMostThreateningNoHandler(targets, terrain, evaluation) ==
    IF targets = <<>> THEN [exc |-> "none", value |-> <<None, None>>, terrain_data |-> None]
    ELSE IF ConvertRaises(targets)
    THEN [exc |-> "AttributeError", value |-> <<>>, terrain_data |-> None]
    ELSE LET terrain_data == IF ~IsNone(terrain) /\ Val(terrain).exc = "none"
                             THEN Val(terrain).value ELSE None
         IN  IF evaluation.exc # "none"
             THEN [exc |-> evaluation.exc, value |-> <<>>, terrain_data |-> terrain_data]
             ELSE IF IsNone(evaluation.value)
             THEN [exc |-> "none", value |-> <<None, None>>, terrain_data |-> terrain_data]
             ELSE LET result == Val(evaluation.value)
                      target == TargetWithId(targets, result.enemy_id)
                  IN  [exc |-> "none",
                       value |-> IF IsNone(target) THEN <<None, None>>
                                 ELSE <<target, Some(result)>>,
                       terrain_data |-> terrain_data]

\* find_most_threatening: the try block of lines 84-124 under `except Exception`,
\* the terrain analysis under its own handler (lines 94-102)
AdapterFindMostThreatening(targets, terrain, evaluation) ==
    IF targets = <<>> THEN [exc |-> "none", value |-> <<None, None>>, terrain_data |-> None]
    ELSE IF ConvertRaises(targets)
    THEN [exc |-> "none", value |-> <<None, None>>, terrain_data |-> None]
    ELSE LET terrain_data == IF ~IsNone(terrain) /\ Val(terrain).exc = "none"
                             THEN Val(terrain).value ELSE None
         IN  IF evaluation.exc # "none" \/ IsNone(evaluation.value)
             THEN [exc |-> "none", value |-> <<None, None>>, terrain_data |-> terrain_data]
             ELSE LET result == Val(evaluation.value)
                      target == TargetWithId(targets, result.enemy_id)
                  IN  [exc |-> "none",
                       value |-> IF IsNone(target) THEN <<None, None>>
                                 ELSE <<target, Some(result)>>,
                       terrain_data |-> terrain_data]

AdapterInit ==
    /\ pc = "adapter"
    /\ running = TRUE
    /\ game_data = None
    /\ wire = <<>>
    /\ ticks = 0
    /\ most_threatening = None
    /\ config = IdleConfig
    /\ csv = NoCSVLogger
    /\ serial = [open |-> FALSE]
    /\ udp = [socket |-> FALSE, bound |-> FALSE]
    /\ hist = <<>>
    /\ call \in {[op |-> "game_data", targets |-> l, terrain |-> t, evaluation |-> e,
                  ret |-> <<>>] :
                    l \in UpTo2(AdapterTargets), t \in TerrainOutcomes,
                    e \in EvaluatorOutcomes}

CallAdapterFindMostThreatening ==
    /\ call.op = "game_data"
    /\ call' = [call EXCEPT
                   !.op = "adapter.find_most_threatening",
                   !.ret = AdapterFindMostThreatening(call.targets, call.terrain,
                                                      call.evaluation)]
    /\ UNCHANGED <<pc, running, config, game_data, csv, serial, wire, udp, hist, ticks, most_threatening>>

AdapterNext == CallAdapterFindMostThreatening

AdapterSpec == AdapterInit /\ [][AdapterNext]_vars

\* C27: the adapter's find_most_threatening never raises. It returns (None, None)
\* when the target list is empty, when the evaluation raises (the conversion of a
\* target or the evaluator), when the evaluator returns nothing, and when no target
\* has the returned enemy_id; in every other case, a failed terrain analysis
\* included, it returns a target of the list whose id is the result's enemy_id,
\* together with that result.
C27_AdapterNeverRaises ==
    call.op = "adapter.find_most_threatening" =>
        LET targets == call.targets
            nothing == \/ targets = <<>>
                       \/ ConvertRaises(targets)
                       \/ call.evaluation.exc # "none"
                       \/ IsNone(call.evaluation.value)
                       \/ \A i \in 1..Len(targets) :
                             targets[i].id # Val(call.evaluation.value).enemy_id
        IN  /\ call.ret.exc = "none"
            /\ IF nothing THEN call.ret.value = <<None, None>>
               ELSE /\ call.ret.value[2] = call.evaluation.value
                    /\ ~IsNone(call.ret.value[1])
                    /\ \E i \in 1..Len(targets) : targets[i] = Val(call.ret.value[1])
                    /\ Val(call.ret.value[1]).id = Val(call.ret.value[2]).enemy_id

\* The terrain analysis raised, the evaluator went on without terrain data and the
\* second of two targets was returned
C27_Witness ==
    /\ call.op = "adapter.find_most_threatening"
    /\ Len(call.targets) = 2
    /\ ~IsNone(call.terrain) /\ Val(call.terrain).exc = "Exception"
    /\ IsNone(call.ret.terrain_data)
    /\ call.ret.value[1] = Some(call.targets[2])
    /\ call.targets[1].id # call.targets[2].id


(***************************************************************************)
(* IFS_ThreatAssessment/threat_evaluator.py: the weights of an evaluator.   *)
(* A weight mapping is a function from keys to numerators over one          *)
(* denominator: the arithmetic is exact, v / total is the fraction v over   *)
(* total.                                                                   *)
(***************************************************************************)
IndicatorNames == <<"distance", "type", "speed", "angle", "visibility", "environment">>

\* Lines 45-52, in hundredths
default_weights ==
    [num |-> [distance |-> 30, type |-> 25, speed |-> 20, angle |-> 15,
              visibility |-> 6, environment |-> 4],
     den |-> 100]

\* sum(weights.values())
RECURSIVE SumValues(_, _)
SumValues(f, keys) ==
    IF keys = {} THEN 0
    ELSE LET k == CHOOSE x \in keys : TRUE
         IN  f[k] + SumValues(f, keys \ {k})

\* Lines 54-61: a non-empty custom mapping replaces the defaults and is divided by
\* its total only when the total is positive
EvaluatorWeights(custom_weights) ==
    IF ~IsNone(custom_weights) /\ DOMAIN Val(custom_weights) # {}
    THEN LET raw == Val(custom_weights)
             total == SumValues(raw, DOMAIN raw)
         IN  IF total > 0 THEN [num |-> raw, den |-> total]
             ELSE [num |-> raw, den |-> 1]
    ELSE default_weights

\* Lines 164-168: weight_list, the weights of the indicators that are keys of
\* self.weights, in the order of the indicator names
RECURSIVE WeightList(_, _)
WeightList(weights, i) ==
    IF i > Len(IndicatorNames) THEN <<>>
    ELSE (IF IndicatorNames[i] \in DOMAIN weights.num
          THEN <<weights.num[IndicatorNames[i]]>> ELSE <<>>)
         \o WeightList(weights, i + 1)

RECURSIVE SumList(_)
SumList(l) == IF l = <<>> THEN 0 ELSE Head(l) + SumList(Tail(l))

\* The custom_weights arguments of the model: None, or a dict over some of these
\* keys with these values
WeightKeys == {"distance", "type", "threat"}
WeightValues == {-1, 0, 1, 2}
CustomWeights ==
    {None} \cup {Some(f) : f \in UNION {[D -> WeightValues] : D \in SUBSET WeightKeys}}

WeightInit ==
    /\ pc = "evaluator"
    /\ running = TRUE
    /\ game_data = None
    /\ wire = <<>>
    /\ ticks = 0
    /\ most_threatening = None
    /\ config = IdleConfig
    /\ csv = NoCSVLogger
    /\ serial = [open |-> FALSE]
    /\ udp = [socket |-> FALSE, bound |-> FALSE]
    /\ hist = <<>>
    /\ call \in {[op |-> "custom_weights", custom_weights |-> c, den |-> 0,
                  weight_list |-> <<>>] : c \in CustomWeights}

\* IFSThreatEvaluator(custom_weights), then the weight_list of an evaluation
NewEvaluator ==
    /\ call.op = "custom_weights"
    /\ LET weights == EvaluatorWeights(call.custom_weights)
       IN  call' = [call EXCEPT !.op = "evaluator",
                                !.den = weights.den,
                                !.weight_list = WeightList(weights, 1)]
    /\ UNCHANGED <<pc, running, config, game_data, csv, serial, wire, udp, hist, ticks, most_threatening>>

WeightNext == NewEvaluator

WeightSpec == WeightInit /\ [][WeightNext]_vars

\* C28: for every evaluator, built with the default weights or with any custom
\* weight mapping, the weights it hands to the aggregation sum to 1.
C28_WeightsSumToOne ==
    call.op = "evaluator" => SumList(call.weight_list) = call.den


C30_EveryStartHasItsStop ==
    call.op \in {"send_vibration", "send_multi_vibration"} =>
        \A i \in StartLines :
            \E j \in (i + 1)..Len(wire) : IsStop(wire[j]) /\ wire[j].motor = wire[i].motor

====
